---- MODULE Spec2Model ----
(***************************************************************************)
(* A model of the request/response pipeline of the untappd client          *)
(* (client.go): client construction, request building with credential     *)
(* injection, the HTTP round trip, response classification                  *)
(* (checkResponse), JSON decoding into the caller's target, and the        *)
(* raw -> domain mapping of listing results (getCheckins,                   *)
(* BadgesOffsetLimit, rawCheckin.export, rawBadge.export, ...).             *)
(*                                                                         *)
(* A pointer is a record with a field nil; a nil pointer is NilPtr.        *)
(* A Go panic is an explicit outcome, [panic |-> TRUE].                     *)
(***************************************************************************)
EXTENDS Integers, Sequences, FiniteSets, TLC

VARIABLES
    client,       \* the *Client of the last successful constructor, or NilPtr
    ctor,         \* the last constructor call: its name, inputs and error
    pc,           \* "idle" | "sent", "upstream" (round trip in progress) | "done"
    req,          \* the call in progress: its inputs and the request sent
    resp,         \* the response the transport delivered, or NoResp
    result,       \* what the call returned (or that it panicked)
    target,       \* the value behind the decode target v
    bodyPos,      \* number of bytes read from the response body
    bodyClosed,   \* res.Body.Close() has run
    trace,        \* the steps request took after the round trip, in order
    classified,   \* what checkResponse answered, once request has called it
    netRequests,  \* number of requests handed to the transport
    transportErr, \* the error the transport returned to the call, or NilErr
    handler,      \* the *AuthHandler NewAuthHandler returned, or NilPtr
    calls         \* the calls that run at the same time, by caller

vars == <<client, ctor, pc, req, resp, result, target, bodyPos, bodyClosed,
          trace, classified, netRequests, transportErr, handler, calls>>

-----------------------------------------------------------------------------
(* Bounds *)

MaxVals == 2        \* values a caller supplies under one query key
MaxItems == 2       \* entries of an items array in a listing response
MaxCount == 2       \* largest server-reported count
MaxRequests == 2    \* round trips performed in one behaviour

-----------------------------------------------------------------------------
(* Constants of client.go *)

formEncodedContentType == "application/x-www-form-urlencoded"
jsonContentType == "application/json"
untappdUserAgent == "github.com/mdlayher/untappd"

ErrNoAccessToken == [sentinel |-> "ErrNoAccessToken", msg |-> "no client ID"]
ErrNoClientID == [sentinel |-> "ErrNoClientID", msg |-> "no client ID"]
ErrNoClientSecret == [sentinel |-> "ErrNoClientSecret", msg |-> "no client secret"]

NilErr == [sentinel |-> "nil"]
NilPtr == [nil |-> TRUE]

-----------------------------------------------------------------------------
(* Client construction *)

ClientIDs == {"", "foo"}
ClientSecrets == {"", "bar"}
AccessTokens == {"", "tok"}

\* newClient: common setup; the base URL is https://api.untappd.com/v4.
newClient(clientID, clientSecret, accessToken) ==
    [c |-> [nil |-> FALSE,
            UserAgent |-> untappdUserAgent,
            url |-> [Scheme |-> "https", Host |-> "api.untappd.com", Path |-> "v4"],
            clientID |-> clientID,
            clientSecret |-> clientSecret,
            accessToken |-> accessToken],
     err |-> NilErr]

NewClientSecretFirst(clientID, clientSecret) ==
    IF clientSecret = "" THEN [c |-> NilPtr, err |-> ErrNoClientSecret]
    ELSE IF clientID = "" THEN [c |-> NilPtr, err |-> ErrNoClientID]
    ELSE newClient(clientID, clientSecret, "")

NewClient(clientID, clientSecret) ==
    IF clientID = "" THEN [c |-> NilPtr, err |-> ErrNoClientID]
    ELSE IF clientSecret = "" THEN [c |-> NilPtr, err |-> ErrNoClientSecret]
    ELSE newClient(clientID, clientSecret, "")

NewAuthenticatedClient(accessToken) ==
    IF accessToken = "" THEN [c |-> NilPtr, err |-> ErrNoAccessToken]
    ELSE newClient("", "", accessToken)

NoCtor == [fn |-> "none"]

\* A caller constructs a client from an ID and a secret.
CallNewClient ==
    /\ pc = "idle"
    /\ client = NilPtr
    /\ \E id \in ClientIDs, secret \in ClientSecrets :
          LET r == NewClient(id, secret) IN
          /\ client' = r.c
          /\ ctor' = [fn |-> "NewClient", clientID |-> id,
                      clientSecret |-> secret, err |-> r.err]
    /\ UNCHANGED <<pc, req, resp, result, target, bodyPos, bodyClosed,
                   trace, classified, netRequests, transportErr, handler,
                   calls>>

\* A caller constructs a client from an access token.
CallNewAuthenticatedClient ==
    /\ pc = "idle"
    /\ client = NilPtr
    /\ \E token \in AccessTokens :
          LET r == NewAuthenticatedClient(token) IN
          /\ client' = r.c
          /\ ctor' = [fn |-> "NewAuthenticatedClient", accessToken |-> token,
                      err |-> r.err]
    /\ UNCHANGED <<pc, req, resp, result, target, bodyPos, bodyClosed,
                   trace, classified, netRequests, transportErr, handler,
                   calls>>

-----------------------------------------------------------------------------
(* url.Values: a map from keys to lists of values.  A key without values  *)
(* is an absent key.                                                        *)

\* Every key used in a query or a form body, in the byte order Encode sorts by.
KeyOrder == <<"access_token", "baz", "bid", "checkin_id", "client_id",
              "client_secret", "compact", "dist_pref", "facebook", "foursquare",
              "foursquare_id", "geolat", "geolng", "gmt_offset", "lat", "limit",
              "lng", "max_id", "min_id", "offset", "q", "radius", "rating",
              "shout", "sort", "timezone", "twitter">>

Keys == {KeyOrder[i] : i \in 1..Len(KeyOrder)}

EmptyValues == [k \in Keys |-> <<>>]

\* url.Values.Add appends a value to the key's list.
ValuesAdd(q, k, v) == [q EXCEPT ![k] = Append(@, v)]

\* url.Values.Set replaces the key's list by the single value.
ValuesSet(q, k, v) == [q EXCEPT ![k] = <<v>>]

\* url.Values.Get: the first value of the key, "" when there is none.
ValuesGet(q, k) == IF Len(q[k]) = 0 THEN "" ELSE q[k][1]

\* for k, v := range query { for _, vv := range v { q.Add(k, vv) } }
RECURSIVE AddEach(_, _, _, _)
AddEach(q, k, vs, i) ==
    IF i > Len(vs) THEN q ELSE AddEach(ValuesAdd(q, k, vs[i]), k, vs, i + 1)

RECURSIVE AddAll(_, _, _)
AddAll(q, query, ks) ==
    IF ks = {} THEN q
    ELSE LET k == CHOOSE x \in ks : TRUE IN
         AddAll(AddEach(q, k, query[k], 1), query, ks \ {k})

\* url.Values.Encode: "k=v" pairs joined by "&", keys in sorted order, the
\* values of one key in list order.  The encoded string is the sequence of
\* its pairs (no key or value of the model needs escaping).
RECURSIVE EncodeFrom(_, _)
EncodeFrom(q, i) ==
    IF i > Len(KeyOrder) THEN <<>>
    ELSE LET k == KeyOrder[i] IN
         [j \in 1..Len(q[k]) |-> <<k, q[k][j]>>] \o EncodeFrom(q, i + 1)

Encode(q) == EncodeFrom(q, 1)

\* Byte length of an encoded string: len(k) + 1 + len(v) per pair, and one
\* "&" between two pairs.
RECURSIVE PairsLen(_, _)
PairsLen(e, i) ==
    IF i > Len(e) THEN 0
    ELSE Len(e[i][1]) + 1 + Len(e[i][2]) + (IF i < Len(e) THEN 1 ELSE 0)
         + PairsLen(e, i + 1)

EncodedLen(e) == PairsLen(e, 1)

\* The values a URL's query carries under a key, as the server parses them.
SentValues(e, k) == SelectSeq(e, LAMBDA p : p[1] = k)

-----------------------------------------------------------------------------
(* Client.request, up to the round trip (client.go 249-310) *)

Methods == {"GET", "POST"}

\* Credential injection (client.go 267-275).
injectCredentialsIDOnly(c, q) ==
    ValuesSet(ValuesSet(q, "client_id", c.clientID),
              "client_secret", c.clientSecret)

injectCredentials(c, q) ==
    IF c.accessToken # ""
    THEN ValuesSet(q, "access_token", c.accessToken)
    ELSE ValuesSet(ValuesSet(q, "client_id", c.clientID),
                   "client_secret", c.clientSecret)

\* The *http.Request that request hands to the transport.  The endpoints of
\* the model carry no query of their own, so u.Query() starts empty.
buildRequestAnyMethod(c, method, endpoint, body, query) ==
    LET q == injectCredentials(c, AddAll(EmptyValues, query, Keys))
        hasBody == Encode(body) # <<>>
        buf == IF hasBody THEN Encode(body) ELSE <<>>
        length == IF hasBody THEN EncodedLen(buf) ELSE 0
    IN [Method |-> method,
        URL |-> [Scheme |-> c.url.Scheme, Host |-> c.url.Host,
                 Path |-> <<c.url.Path, endpoint, "">>,
                 RawQuery |-> Encode(q)],
        Header |-> [Accept |-> <<jsonContentType>>,
                    ContentType |-> IF hasBody THEN <<formEncodedContentType>> ELSE <<>>,
                    ContentLength |-> IF hasBody THEN <<length>> ELSE <<>>,
                    UserAgent |-> <<c.UserAgent>>],
        Body |-> buf]

buildRequest(c, method, endpoint, body, query) ==
    LET q == injectCredentials(c, AddAll(EmptyValues, query, Keys))
        hasBody == method = "POST" /\ Encode(body) # <<>>
        buf == IF hasBody THEN Encode(body) ELSE <<>>
        length == IF hasBody THEN EncodedLen(buf) ELSE 0
    IN [Method |-> method,
        URL |-> [Scheme |-> c.url.Scheme, Host |-> c.url.Host,
                 Path |-> <<c.url.Path, endpoint, "">>,
                 RawQuery |-> Encode(q)],
        Header |-> [Accept |-> <<jsonContentType>>,
                    ContentType |-> IF hasBody THEN <<formEncodedContentType>> ELSE <<>>,
                    ContentLength |-> IF hasBody THEN <<length>> ELSE <<>>,
                    UserAgent |-> <<c.UserAgent>>],
        Body |-> buf]

-----------------------------------------------------------------------------
(* Responses.  A body is a JSON document given by its form:                *)
(*   empty      no bytes at all                                             *)
(*   truncated  "{"                                                         *)
(*   syntax     "}"                                                         *)
(*   meta       {"meta": {"code", "error_type", "error_detail",            *)
(*                         "developer_friendly", "response_time"}}         *)
(*   checkins   {"response": {"checkins": {"count", "items"}}}             *)
(*   badges     {"response": {"count", "items"}}                           *)

ioEOF == [sentinel |-> "io.EOF"]
ioErrUnexpectedEOF == [sentinel |-> "io.ErrUnexpectedEOF"]
jsonSyntaxError == [sentinel |-> "*json.SyntaxError"]
errInvalidTimeUnit == [sentinel |-> "errInvalidTimeUnit", msg |-> "invalid time unit"]

\* Length of a body in read units: json.Decoder buffers a short body whole.
BodyLen(b) == IF b.form = "empty" THEN 0 ELSE 1

\* The decoder's outcome on a body that is not one complete JSON value.
syntaxCheck(b) ==
    CASE b.form = "empty" -> ioEOF
      [] b.form = "truncated" -> ioErrUnexpectedEOF
      [] b.form = "syntax" -> jsonSyntaxError
      [] OTHER -> NilErr

\* timeUnits of responseDuration.UnmarshalJSON; a missing key gives "".
timeUnits(measure) ==
    CASE measure = "milliseconds" -> "ms"
      [] measure = "seconds" -> "s"
      [] measure = "minutes" -> "m"
      [] OTHER -> ""

\* A time.Duration counts nanoseconds in 64 bits.  The model writes it as
\* whole seconds and the nanoseconds beyond them, both with the sign of the
\* duration.
Duration(sec, nsec) == [sec |-> sec, nsec |-> nsec]

ZeroDuration == Duration(0, 0)

\* time.ParseDuration(fmt.Sprintf("%f%s", t, unit)): %f prints six decimals,
\* so t is given in millionths; one millionth of a millisecond is 1ns, of a
\* second 1000ns, of a minute 60000ns.
ParseDuration(micros, unit) ==
    LET sign == IF micros < 0 THEN -1 ELSE 1
        a == sign * micros
    IN CASE unit = "ms" ->
              [d |-> Duration(sign * (a \div 1000000000),
                              sign * (a % 1000000000)),
               err |-> NilErr]
         [] unit = "s" ->
              [d |-> Duration(sign * (a \div 1000000),
                              sign * ((a % 1000000) * 1000)),
               err |-> NilErr]
         [] unit = "m" ->
              [d |-> Duration(sign * ((a * 60) \div 1000000),
                              sign * (((a * 60) % 1000000) * 1000)),
               err |-> NilErr]
         [] OTHER -> [d |-> ZeroDuration,
                      err |-> [sentinel |-> "errorString",
                               msg |-> "time: missing unit in duration"]]

\* A JSON value handed to an UnmarshalJSON method or to json.Unmarshal, by
\* its kind.  The text of a JSON string is a record that starts with the
\* layout the text is written in.
JMalformed == [json |-> "malformed"]
JNull == [json |-> "null"]
JTrue == [json |-> "true"]
JFalse == [json |-> "false"]
JEmptyArray == [json |-> "array", elems |-> <<>>]

JInt(n) == [json |-> "int", n |-> n]

JFloat(tenths) == [json |-> "float", tenths |-> tenths]

JString(text) == [json |-> "string", text |-> text]

PlainText(chars) == [layout |-> "plain", chars |-> chars]

jsonUnmarshalTypeError == [sentinel |-> "*json.UnmarshalTypeError"]
timeParseError == [sentinel |-> "*time.ParseError"]
errInvalidBool == [sentinel |-> "errInvalidBool", msg |-> "invalid boolean value"]

\* The element of a one-element set: The({e(x) : x \in {v}}) is e(v).
The(S) == CHOOSE x \in S : TRUE

\* json.Unmarshal(data, &v) for var v int: null leaves v alone, a number
\* that is not an integer and every other kind are type errors.
unmarshalInt(data) ==
    CASE data.json = "malformed" -> [err |-> jsonSyntaxError, v |-> 0]
      [] data.json = "null" -> [err |-> NilErr, v |-> 0]
      [] data.json = "int" -> [err |-> NilErr, v |-> data.n]
      [] OTHER -> [err |-> jsonUnmarshalTypeError, v |-> 0]

\* json.Unmarshal(data, &v) for var v string.
unmarshalString(data) ==
    CASE data.json = "malformed" -> [err |-> jsonSyntaxError, v |-> PlainText("")]
      [] data.json = "null" -> [err |-> NilErr, v |-> PlainText("")]
      [] data.json = "string" -> [err |-> NilErr, v |-> data.text]
      [] OTHER -> [err |-> jsonUnmarshalTypeError, v |-> PlainText("")]

\* responseDuration.UnmarshalJSON on data, with *r = r0 before the call.
\* data is malformed or the object {"time": t, "measure": m}; a missing
\* measure leaves v.Measure empty.
responseDurationZeroOnError(data, r0) ==
    IF data.json = "malformed" THEN [err |-> jsonSyntaxError, val |-> r0]
    ELSE LET p == ParseDuration(data.micros, timeUnits(data.measure)) IN
         IF p.err # NilErr THEN [err |-> NilErr, val |-> ZeroDuration]
         ELSE [err |-> p.err, val |-> p.d]

responseDurationUnmarshalJSON(data, r0) ==
    IF data.json = "malformed" THEN [err |-> jsonSyntaxError, val |-> r0]
    ELSE LET p == ParseDuration(data.micros, timeUnits(data.measure)) IN
         IF p.err # NilErr /\ p.err.msg = "time: missing unit in duration"
         THEN [err |-> errInvalidTimeUnit, val |-> r0]
         ELSE [err |-> p.err, val |-> p.d]

\* responseBool.UnmarshalJSON
responseBoolAnyNonZero(data, r0) ==
    LET u == unmarshalInt(data) IN
    IF u.err # NilErr THEN [err |-> u.err, val |-> r0]
    ELSE [err |-> NilErr, val |-> u.v # 0]

responseBoolUnmarshalJSON(data, r0) ==
    The({IF u.err # NilErr THEN [err |-> u.err, val |-> r0]
         ELSE CASE u.v = 0 -> [err |-> NilErr, val |-> FALSE]
                [] u.v = 1 -> [err |-> NilErr, val |-> TRUE]
                [] OTHER -> [err |-> errInvalidBool, val |-> r0] :
           u \in {unmarshalInt(data)}})

\* time.Parse(time.RFC1123Z, v)
timeParseRFC1123Z(v) ==
    IF v.layout = "RFC1123Z"
    THEN [err |-> NilErr, t |-> [clock |-> v.clock, zone |-> v.zone]]
    ELSE [err |-> timeParseError, t |-> [clock |-> <<1, 1, 1, 0, 0, 0>>, zone |-> 0]]

\* responseTime.UnmarshalJSON
responseTimeUnmarshalJSON(data, r0) ==
    The({IF u.err # NilErr THEN [err |-> u.err, val |-> r0]
         ELSE The({IF p.err # NilErr THEN [err |-> p.err, val |-> r0]
                   ELSE [err |-> NilErr, val |-> p.t] :
                     p \in {timeParseRFC1123Z(u.v)}}) :
           u \in {unmarshalString(data)}})

ZeroMeta == [Code |-> 0, ErrorDetail |-> "", ErrorType |-> "",
             DeveloperFriendly |-> "", ResponseTime |-> ZeroDuration]

\* json.NewDecoder(res.Body).Decode(&apiErr) of checkResponse.
decodeAPIErr(b) ==
    IF syntaxCheck(b) # NilErr THEN [err |-> syntaxCheck(b), Meta |-> ZeroMeta]
    ELSE IF b.form # "meta" THEN [err |-> NilErr, Meta |-> ZeroMeta]
    ELSE LET rt == IF b.response_time.present
                   THEN responseDurationUnmarshalJSON(b.response_time, ZeroDuration)
                   ELSE [val |-> ZeroDuration, err |-> NilErr]
         IN [err |-> rt.err,
             Meta |-> [Code |-> b.code, ErrorDetail |-> b.error_detail,
                       ErrorType |-> b.error_type,
                       DeveloperFriendly |-> b.developer_friendly,
                       ResponseTime |-> rt.val]]

\* fmt.Errorf("expected %s content type, but received %s", ...)
contentTypeError(cType) ==
    [sentinel |-> "errorString",
     msg |-> <<"expected", jsonContentType, "content type, but received", cType>>]

\* The 200-range test of checkResponse.
statusOKBelow299(c) == 200 <= c /\ c < 299

statusOK(c) == 200 <= c /\ c <= 299

\* Error.Error: "<code> [<type>]: <details>", where details is the developer
\* friendly string unless that one is empty.
ErrorErrorDetailFirst(e) ==
    ToString(e.Code) \o " [" \o e.Type \o "]: "
        \o (IF e.Detail # "" THEN e.Detail ELSE e.DeveloperFriendly)

ErrorError(e) ==
    ToString(e.Code) \o " [" \o e.Type \o "]: "
        \o (IF e.DeveloperFriendly # "" THEN e.DeveloperFriendly ELSE e.Detail)

\* The tail of checkResponse: decode the error envelope and build the *Error.
apiErrorHTTPCode(res) ==
    LET d == decodeAPIErr(res.Body) IN
    IF d.err # NilErr THEN d.err
    ELSE [sentinel |-> "*Error",
          Code |-> res.StatusCode,
          Detail |-> d.Meta.ErrorDetail,
          Type |-> d.Meta.ErrorType,
          DeveloperFriendly |-> d.Meta.DeveloperFriendly,
          Duration |-> d.Meta.ResponseTime]

apiError(res) ==
    LET d == decodeAPIErr(res.Body) IN
    IF d.err # NilErr THEN d.err
    ELSE [sentinel |-> "*Error",
          Code |-> d.Meta.Code,
          Detail |-> d.Meta.ErrorDetail,
          Type |-> d.Meta.ErrorType,
          DeveloperFriendly |-> d.Meta.DeveloperFriendly,
          Duration |-> d.Meta.ResponseTime]

\* checkResponse: the error it returns and how far it read the body.
checkResponseStatusFirst(res) ==
    IF statusOK(res.StatusCode) THEN [err |-> NilErr, read |-> 0]
    ELSE IF res.Header.ContentType # jsonContentType
    THEN [err |-> contentTypeError(res.Header.ContentType), read |-> 0]
    ELSE [err |-> apiError(res), read |-> BodyLen(res.Body)]

checkResponse(res) ==
    IF res.Header.ContentType # jsonContentType
    THEN [err |-> contentTypeError(res.Header.ContentType), read |-> 0]
    ELSE IF statusOK(res.StatusCode) THEN [err |-> NilErr, read |-> 0]
    ELSE [err |-> apiError(res), read |-> BodyLen(res.Body)]

-----------------------------------------------------------------------------
(* Raw wire values and their mapping to domain values *)

\* rawUser.export: a method on a pointer that reads the pointer's fields.
rawUserExport(r) ==
    IF r.nil THEN [panic |-> TRUE]
    ELSE [panic |-> FALSE,
          val |-> [nil |-> FALSE, UserName |-> r.UserName,
                   Supporter |-> r.Supporter]]

\* rawToast.export
rawToastExport(r) ==
    IF r.nil THEN [panic |-> TRUE]
    ELSE LET u == rawUserExport(r.User) IN
         IF u.panic THEN [panic |-> TRUE]
         ELSE [panic |-> FALSE,
               val |-> [nil |-> FALSE, ID |-> r.ID, Created |-> r.Created,
                        User |-> u.val]]

\* rawComment.export
rawCommentExport(r) ==
    IF r.nil THEN [panic |-> TRUE]
    ELSE LET u == rawUserExport(r.User) IN
         IF u.panic THEN [panic |-> TRUE]
         ELSE [panic |-> FALSE,
               val |-> [nil |-> FALSE, ID |-> r.ID, Created |-> r.Created,
                        User |-> u.val]]

\* rawVenue.export of the venue sub-object of a checkin.
rawVenueExport(r) ==
    [nil |-> FALSE, ID |-> r.ID, Name |-> r.Name, Updated |-> r.Updated]

\* rawBeer.export
rawBeerExport(r) == [nil |-> FALSE, ID |-> r.ID, Created |-> r.Created]

\* rawBrewery.export
rawBreweryExport(r) == [nil |-> FALSE, ID |-> r.ID, Active |-> r.Active]

\* A slice: nil, or its elements.
NilSlice == [nil |-> TRUE]

Slice(elems) == [nil |-> FALSE, elems |-> elems]

\* out := make([]*T, count); for i := range items { out[i] = items[i].export() }
\* given the export outcome of every item.  make panics on a negative length,
\* out[i] on an index that is not below count.
buildListAppend(count, exported) ==
    IF \E i \in 1..Len(exported) : exported[i].panic THEN [panic |-> TRUE]
    ELSE [panic |-> FALSE,
          val |-> Slice([i \in 1..Len(exported) |-> exported[i].val])]

buildList(count, exported) ==
    IF count < 0 THEN [panic |-> TRUE]
    ELSE IF Len(exported) > count THEN [panic |-> TRUE]
    ELSE IF \E i \in 1..Len(exported) : exported[i].panic THEN [panic |-> TRUE]
    ELSE [panic |-> FALSE,
          val |-> Slice([i \in 1..count |->
                            IF i <= Len(exported) THEN exported[i].val
                            ELSE NilPtr])]

\* rawBadge.export: the levels of a badge are exported the same way.
RECURSIVE rawBadgeExport(_)
rawBadgeExport(r) ==
    IF r.nil THEN [panic |-> TRUE]
    ELSE LET levels == buildList(r.Levels.Count,
                          [i \in 1..Len(r.Levels.Items) |->
                              rawBadgeExport(r.Levels.Items[i])])
         IN IF levels.panic THEN [panic |-> TRUE]
            ELSE [panic |-> FALSE,
                  val |-> [nil |-> FALSE, ID |-> r.ID, Active |-> r.Active,
                           Levels |-> levels.val]]

\* The venue test of rawCheckin.export.
venuePresent(v) == v.ID # 0 /\ v.Name # ""

\* rawCheckin.export
rawCheckinExport(r) ==
    IF r.nil THEN [panic |-> TRUE]
    ELSE LET venue == IF venuePresent(r.Venue) THEN rawVenueExport(r.Venue)
                      ELSE NilPtr
             badges == buildList(r.Badges.Count,
                          [i \in 1..Len(r.Badges.Items) |->
                              rawBadgeExport(r.Badges.Items[i])])
             toasts == buildList(r.Toasts.Count,
                          [i \in 1..Len(r.Toasts.Items) |->
                              rawToastExport(r.Toasts.Items[i])])
             comments == buildList(r.Comments.Count,
                          [i \in 1..Len(r.Comments.Items) |->
                              rawCommentExport(r.Comments.Items[i])])
         IN IF badges.panic \/ toasts.panic \/ comments.panic
            THEN [panic |-> TRUE]
            ELSE [panic |-> FALSE,
                  val |-> [nil |-> FALSE, ID |-> r.ID,
                           Created |-> r.Created, Venue |-> venue,
                           Badges |-> badges.val, Toasts |-> toasts.val,
                           Comments |-> comments.val]]

-----------------------------------------------------------------------------
(* json.NewDecoder(res.Body).Decode(v) for the decode targets of the model. *)
(* A wire value is written with the field names of the raw struct it is    *)
(* decoded into.  A field of a plain type (int, string) holds its value; a *)
(* field whose type has an UnmarshalJSON method holds the JSON value that  *)
(* method is handed; a pointer field holds NilPtr for JSON null.  Each     *)
(* decoder returns its error and the value it left behind: decoding stops  *)
(* at the first error, with the fields before it set.                       *)

\* The zero time.Time.
ZeroTime == [clock |-> <<1, 1, 1, 0, 0, 0>>, zone |-> 0]

ZeroLevels == [Count |-> 0, Items |-> <<>>]

ZeroVenue == [ID |-> 0, Name |-> "", Updated |-> ZeroTime]

\* The index of the first failed result, 0 when none failed.
FirstFailure(rs) ==
    IF \A i \in 1..Len(rs) : rs[i].err = NilErr THEN 0
    ELSE CHOOSE i \in 1..Len(rs) :
            /\ rs[i].err # NilErr
            /\ \A j \in 1..(i - 1) : rs[j].err = NilErr

\* A JSON array decoded into a slice, given the outcome of each element:
\* the slice keeps the elements up to and including the one that failed.
decodeItems(rs) ==
    LET k == FirstFailure(rs) IN
    IF k = 0 THEN [err |-> NilErr, val |-> [i \in 1..Len(rs) |-> rs[i].val]]
    ELSE [err |-> rs[k].err, val |-> [i \in 1..k |-> rs[i].val]]

\* struct { Count int; Items []T }
decodeCounted(w, rs) ==
    LET d == decodeItems(rs) IN
    [err |-> d.err, val |-> [Count |-> w.Count, Items |-> d.val]]

\* A struct decoded field by field: rs holds the outcome of each field that
\* has a decoder of its own, in declaration order, and zeros the values the
\* fields hold before.  Decoding stops at the first error: the fields after
\* it keep their zero value.
decodeFields(rs, zeros) ==
    [err |-> IF FirstFailure(rs) = 0 THEN NilErr ELSE rs[FirstFailure(rs)].err,
     vals |-> [i \in 1..Len(rs) |->
                  IF FirstFailure(rs) = 0 \/ i <= FirstFailure(rs)
                  THEN rs[i].val ELSE zeros[i]]]

\* rawUser
decodeRawUser(w) ==
    IF w.nil THEN [err |-> NilErr, val |-> NilPtr]
    ELSE The({[err |-> s.err,
               val |-> [nil |-> FALSE, UserName |-> w.UserName,
                        Supporter |-> s.val]] :
                 s \in {responseBoolUnmarshalJSON(w.Supporter, FALSE)}})

\* rawToast
decodeRawToast(w) ==
    IF w.nil THEN [err |-> NilErr, val |-> NilPtr]
    ELSE The({[err |-> d.err,
               val |-> [nil |-> FALSE, ID |-> w.ID, Created |-> d.vals[1],
                        User |-> d.vals[2]]] :
                 d \in {decodeFields(
                           <<responseTimeUnmarshalJSON(w.Created, ZeroTime),
                             decodeRawUser(w.User)>>,
                           <<ZeroTime, NilPtr>>)}})

\* rawComment
decodeRawComment(w) ==
    IF w.nil THEN [err |-> NilErr, val |-> NilPtr]
    ELSE The({[err |-> d.err,
               val |-> [nil |-> FALSE, ID |-> w.ID, Created |-> d.vals[1],
                        User |-> d.vals[2]]] :
                 d \in {decodeFields(
                           <<responseTimeUnmarshalJSON(w.Created, ZeroTime),
                             decodeRawUser(w.User)>>,
                           <<ZeroTime, NilPtr>>)}})

\* rawBadge, and responseBadgeLevels.UnmarshalJSON with *r = r0 before the
\* call: the levels of a badge are badges.
RECURSIVE decodeRawBadge(_)
RECURSIVE responseBadgeLevelsUnmarshalJSON(_, _)
responseBadgeLevelsObjectOnly(data, r0) ==
    CASE data.json = "malformed" -> [err |-> jsonSyntaxError, val |-> r0]
      [] data.json = "null" -> [err |-> NilErr, val |-> ZeroLevels]
      [] data.json = "object" ->
            The({IF d.err # NilErr THEN [err |-> d.err, val |-> r0]
                 ELSE [err |-> NilErr,
                       val |-> [Count |-> data.Count, Items |-> d.val]] :
                   d \in {decodeItems([i \in 1..Len(data.Items) |->
                                          decodeRawBadge(data.Items[i])])}})
      [] OTHER -> [err |-> jsonUnmarshalTypeError, val |-> r0]

responseBadgeLevelsUnmarshalJSON(data, r0) ==
    IF data = JEmptyArray THEN [err |-> NilErr, val |-> r0]
    ELSE CASE data.json = "malformed" -> [err |-> jsonSyntaxError, val |-> r0]
           [] data.json = "null" -> [err |-> NilErr, val |-> ZeroLevels]
           [] data.json = "object" ->
                 The({IF d.err # NilErr THEN [err |-> d.err, val |-> r0]
                      ELSE [err |-> NilErr,
                            val |-> [Count |-> data.Count, Items |-> d.val]] :
                        d \in {decodeItems([i \in 1..Len(data.Items) |->
                                               decodeRawBadge(data.Items[i])])}})
           [] OTHER -> [err |-> jsonUnmarshalTypeError, val |-> r0]

decodeRawBadge(w) ==
    IF w.nil THEN [err |-> NilErr, val |-> NilPtr]
    ELSE The({[err |-> d.err,
               val |-> [nil |-> FALSE, ID |-> w.ID, Active |-> d.vals[1],
                        Levels |-> d.vals[2]]] :
                 d \in {decodeFields(
                           <<responseBoolUnmarshalJSON(w.Active, FALSE),
                             responseBadgeLevelsUnmarshalJSON(w.Levels,
                                                              ZeroLevels)>>,
                           <<FALSE, ZeroLevels>>)}})

\* responseVenue.UnmarshalJSON with *r = r0 before the call.
responseVenueUnmarshalJSON(data, r0) ==
    IF data = JEmptyArray THEN [err |-> NilErr, val |-> r0]
    ELSE CASE data.json = "malformed" -> [err |-> jsonSyntaxError, val |-> r0]
           [] data.json = "null" -> [err |-> NilErr, val |-> ZeroVenue]
           [] data.json = "object" ->
                 [err |-> NilErr,
                  val |-> [ID |-> data.ID, Name |-> data.Name,
                           Updated |-> ZeroTime]]
           [] OTHER -> [err |-> jsonUnmarshalTypeError, val |-> r0]

\* rawCheckin
decodeRawCheckin(w) ==
    IF w.nil THEN [err |-> NilErr, val |-> NilPtr]
    ELSE The({[err |-> d.err,
               val |-> [nil |-> FALSE, ID |-> w.ID,
                        Created |-> d.vals[1], Venue |-> d.vals[2],
                        Badges |-> d.vals[3], Toasts |-> d.vals[4],
                        Comments |-> d.vals[5]]] :
                 d \in {decodeFields(
                           <<responseTimeUnmarshalJSON(w.Created, ZeroTime),
                             responseVenueUnmarshalJSON(w.Venue, ZeroVenue),
                             decodeCounted(w.Badges,
                                [i \in 1..Len(w.Badges.Items) |->
                                    decodeRawBadge(w.Badges.Items[i])]),
                             decodeCounted(w.Toasts,
                                [i \in 1..Len(w.Toasts.Items) |->
                                    decodeRawToast(w.Toasts.Items[i])]),
                             decodeCounted(w.Comments,
                                [i \in 1..Len(w.Comments.Items) |->
                                    decodeRawComment(w.Comments.Items[i])])>>,
                           <<ZeroTime, ZeroVenue, ZeroLevels, ZeroLevels,
                             ZeroLevels>>)}})

\* rawBeer
decodeRawBeer(w) ==
    The({[err |-> c.err, val |-> [nil |-> FALSE, ID |-> w.ID, Created |-> c.val]] :
           c \in {responseTimeUnmarshalJSON(w.Created, ZeroTime)}})

\* rawBrewery
decodeRawBrewery(w) ==
    The({[err |-> a.err, val |-> [nil |-> FALSE, ID |-> w.ID, Active |-> a.val]] :
           a \in {responseBoolUnmarshalJSON(w.Active, FALSE)}})

\* rawVenue
decodeRawVenue(w) ==
    The({[err |-> u.err,
          val |-> [nil |-> FALSE, ID |-> w.ID, Name |-> w.Name,
                   Updated |-> u.val]] :
           u \in {responseTimeUnmarshalJSON(w.Updated, ZeroTime)}})

ZeroBeer == [nil |-> FALSE, ID |-> 0, Created |-> ZeroTime]

ZeroBrewery == [nil |-> FALSE, ID |-> 0, Active |-> FALSE]

\* struct { User rawUser } of FriendsOffsetLimit
decodeFriendItem(w) ==
    The({[err |-> u.err, val |-> [User |-> u.val]] :
           u \in {decodeRawUser(w.User)}})

\* struct { Beer rawBeer; Brewery rawBrewery } of the beer listings
decodeBeerItem(w) ==
    The({[err |-> d.err, val |-> [Beer |-> d.vals[1], Brewery |-> d.vals[2]]] :
           d \in {decodeFields(<<decodeRawBeer(w.Beer),
                                 decodeRawBrewery(w.Brewery)>>,
                               <<ZeroBeer, ZeroBrewery>>)}})

\* struct { Brewery rawBrewery } of BreweryService.SearchOffsetLimit
decodeBreweryItem(w) ==
    The({[err |-> y.err, val |-> [Brewery |-> y.val]] :
           y \in {decodeRawBrewery(w.Brewery)}})

\* v is nil or points to a temporary struct, named here by what it holds:
\*   meta                         struct{ Meta struct{ Code int } } (client_test.go)
\*   checkins, badges, friends, beers, wishlist, beersearch, brewerysearch
\*                                a count and a list of items
\*   user, beer, brewery, venue, checkin, toast
\*                                one raw object
ListTypes == {"checkins", "badges", "friends", "beers", "wishlist",
              "beersearch", "brewerysearch"}

ZeroRaw(type) ==
    CASE type = "user" -> [nil |-> FALSE, UserName |-> "", Supporter |-> FALSE]
      [] type = "beer" -> ZeroBeer
      [] type = "brewery" -> ZeroBrewery
      [] type = "venue" -> [nil |-> FALSE, ID |-> 0, Name |-> "", Updated |-> ZeroTime]
      [] type = "checkin" ->
            [nil |-> FALSE, ID |-> 0, Created |-> ZeroTime, Venue |-> ZeroVenue,
             Badges |-> ZeroLevels, Toasts |-> ZeroLevels, Comments |-> ZeroLevels]
      [] type = "toast" ->
            [nil |-> FALSE, ID |-> 0, Created |-> ZeroTime, User |-> NilPtr]

ZeroTarget(type) ==
    IF type = "meta" THEN [Meta |-> [Code |-> 0]]
    ELSE IF type \in ListTypes THEN [Count |-> 0, Items |-> <<>>]
    ELSE [Response |-> ZeroRaw(type)]

\* One element of the items array of a listing.
decodeItem(type, w) ==
    CASE type = "checkins" -> decodeRawCheckin(w)
      [] type = "badges" -> decodeRawBadge(w)
      [] type = "friends" -> decodeFriendItem(w)
      [] type = "brewerysearch" -> decodeBreweryItem(w)
      [] OTHER -> decodeBeerItem(w)

\* The object of a single-object response.  A struct field of a non-pointer
\* type decodes into the struct that is there.
decodeObject(type, w) ==
    CASE type = "user" -> decodeRawUser(w)
      [] type = "beer" -> decodeRawBeer(w)
      [] type = "brewery" -> decodeRawBrewery(w)
      [] type = "venue" -> decodeRawVenue(w)
      [] type = "checkin" -> decodeRawCheckin(w)
      [] type = "toast" -> decodeRawToast(w)

\* A malformed document is rejected before anything is stored; a well-formed
\* one sets the fields it has, in order, and leaves the others as they were.
decodeTarget(type, b, t0) ==
    IF syntaxCheck(b) # NilErr THEN [err |-> syntaxCheck(b), target |-> t0]
    ELSE IF b.form # type THEN [err |-> NilErr, target |-> t0]
    ELSE IF type = "meta"
    THEN [err |-> NilErr, target |-> [Meta |-> [Code |-> b.code]]]
    ELSE IF type \in ListTypes
    THEN The({[err |-> d.err, target |-> [Count |-> b.count, Items |-> d.val]] :
                d \in {decodeItems([i \in 1..Len(b.items) |->
                                       decodeItem(type, b.items[i])])}})
    ELSE The({[err |-> d.err, target |-> [Response |-> d.val]] :
                d \in {decodeObject(type, b.obj)}})

-----------------------------------------------------------------------------
(* Client.request, from the round trip on (client.go 309-328).  doErr is   *)
(* the error of c.client.Do, res its response, v the decode target and t0  *)
(* the value behind v when request was called.                              *)

NotClassified == [called |-> FALSE]

Classified(err) == [called |-> TRUE, err |-> err]

requestReturnDecodeFirst(doErr, res, v, t0) ==
    IF doErr # NilErr
    THEN [res |-> NilPtr, err |-> doErr, target |-> t0, bodyPos |-> 0,
          bodyClosed |-> FALSE, trace |-> <<>>, checked |-> NotClassified]
    ELSE LET d == IF v.nil THEN [err |-> NilErr, target |-> t0]
                  ELSE decodeTarget(v.type, res.Body, t0)
             chk == checkResponse(res)
         IN [res |-> res, err |-> IF chk.err # NilErr THEN chk.err ELSE d.err,
             target |-> d.target, bodyPos |-> BodyLen(res.Body),
             bodyClosed |-> TRUE,
             trace |-> <<"decode", "checkResponse", "close">>,
             checked |-> Classified(chk.err)]

requestReturnCloseOnSuccess(doErr, res, v, t0) ==
    IF doErr # NilErr
    THEN [res |-> NilPtr, err |-> doErr, target |-> t0, bodyPos |-> 0,
          bodyClosed |-> FALSE, trace |-> <<>>, checked |-> NotClassified]
    ELSE LET chk == checkResponse(res) IN
         IF chk.err # NilErr
         THEN [res |-> res, err |-> chk.err, target |-> t0,
               bodyPos |-> chk.read, bodyClosed |-> FALSE,
               trace |-> <<"checkResponse">>, checked |-> Classified(chk.err)]
         ELSE IF v.nil
         THEN [res |-> res, err |-> NilErr, target |-> t0,
               bodyPos |-> chk.read, bodyClosed |-> TRUE,
               trace |-> <<"checkResponse", "close">>,
               checked |-> Classified(chk.err)]
         ELSE LET d == decodeTarget(v.type, res.Body, t0) IN
              [res |-> res, err |-> d.err, target |-> d.target,
               bodyPos |-> BodyLen(res.Body), bodyClosed |-> TRUE,
               trace |-> <<"checkResponse", "decode", "close">>,
               checked |-> Classified(chk.err)]

requestReturn(doErr, res, v, t0) ==
    IF doErr # NilErr
    THEN [res |-> NilPtr, err |-> doErr, target |-> t0, bodyPos |-> 0,
          bodyClosed |-> FALSE, trace |-> <<>>, checked |-> NotClassified]
    ELSE LET chk == checkResponse(res) IN
         IF chk.err # NilErr
         THEN [res |-> res, err |-> chk.err, target |-> t0,
               bodyPos |-> chk.read, bodyClosed |-> TRUE,
               trace |-> <<"checkResponse", "close">>,
               checked |-> Classified(chk.err)]
         ELSE IF v.nil
         THEN [res |-> res, err |-> NilErr, target |-> t0,
               bodyPos |-> chk.read, bodyClosed |-> TRUE,
               trace |-> <<"checkResponse", "close">>,
               checked |-> Classified(chk.err)]
         ELSE LET d == decodeTarget(v.type, res.Body, t0) IN
              [res |-> res, err |-> d.err, target |-> d.target,
               bodyPos |-> BodyLen(res.Body), bodyClosed |-> TRUE,
               trace |-> <<"checkResponse", "decode", "close">>,
               checked |-> Classified(chk.err)]

\* What a listing endpoint (getCheckins, BadgesOffsetLimit) returns once
\* request has returned rr; export maps one raw item.
listingReturnIgnoringError(rr, exported) ==
    LET l == buildList(rr.target.Count, exported) IN
    IF l.panic THEN [returned |-> FALSE, panic |-> TRUE]
    ELSE [returned |-> TRUE, panic |-> FALSE, val |-> l.val,
          res |-> rr.res, err |-> rr.err]

listingReturn(rr, exported) ==
    IF rr.err # NilErr
    THEN [returned |-> TRUE, panic |-> FALSE, val |-> NilSlice,
          res |-> rr.res, err |-> rr.err]
    ELSE LET l == buildList(rr.target.Count, exported) IN
         IF l.panic THEN [returned |-> FALSE, panic |-> TRUE]
         ELSE [returned |-> TRUE, panic |-> FALSE, val |-> l.val,
               res |-> rr.res, err |-> NilErr]

\* Client.getCheckins (client.go 333-357)
getCheckins(rr) ==
    listingReturn(rr, [i \in 1..Len(rr.target.Items) |->
                          rawCheckinExport(rr.target.Items[i])])

\* UserService.BadgesOffsetLimit, after its request
BadgesOffsetLimit(rr) ==
    listingReturn(rr, [i \in 1..Len(rr.target.Items) |->
                          rawBadgeExport(rr.target.Items[i])])

\* UserService.FriendsOffsetLimit, after its request
FriendsOffsetLimitTail(rr) ==
    listingReturn(rr, [i \in 1..Len(rr.target.Items) |->
                          rawUserExport(rr.target.Items[i].User)])

\* beers[i] = Items[i].Beer.export(); beers[i].Brewery = Items[i].Brewery.export()
beerItemExport(item) ==
    [panic |-> FALSE,
     val |-> [nil |-> FALSE, ID |-> item.Beer.ID, Created |-> item.Beer.Created,
              Brewery |-> rawBreweryExport(item.Brewery)]]

\* BeersOffsetLimitSort, WishListOffsetLimitSort and SearchOffsetLimitSort,
\* after their request
BeersTail(rr) ==
    listingReturn(rr, [i \in 1..Len(rr.target.Items) |->
                          beerItemExport(rr.target.Items[i])])

\* BreweryService.SearchOffsetLimit, after its request
BrewerySearchTail(rr) ==
    listingReturn(rr, [i \in 1..Len(rr.target.Items) |->
                          [panic |-> FALSE,
                           val |-> rawBreweryExport(rr.target.Items[i].Brewery)]])

\* An endpoint that returns one object, after its request: exported is the
\* outcome of export on the decoded object.
objectReturn(rr, exported) ==
    IF rr.err # NilErr
    THEN [returned |-> TRUE, panic |-> FALSE, val |-> NilPtr,
          res |-> rr.res, err |-> rr.err]
    ELSE IF exported.panic THEN [returned |-> FALSE, panic |-> TRUE]
    ELSE [returned |-> TRUE, panic |-> FALSE, val |-> exported.val,
          res |-> rr.res, err |-> NilErr]

\* The Info lookups, after their request: the raw object is a struct value.
InfoTail(type, rr) ==
    objectReturn(rr,
        CASE type = "user" -> rawUserExport(rr.target.Response)
          [] type = "beer" ->
                [panic |-> FALSE, val |-> rawBeerExport(rr.target.Response)]
          [] type = "brewery" ->
                [panic |-> FALSE, val |-> rawBreweryExport(rr.target.Response)]
          [] type = "venue" ->
                [panic |-> FALSE, val |-> rawVenueExport(rr.target.Response)])

\* AuthService.Checkin, after its request
AuthCheckinTail(rr) == objectReturn(rr, rawCheckinExport(rr.target.Response))

\* AuthService.Toast, after its request: the response and the error only.
AuthToastTail(rr) ==
    [returned |-> TRUE, panic |-> FALSE, res |-> rr.res, err |-> rr.err]

\* What the call of the given kind hands back to its caller.
callReturn(kind, rr) ==
    CASE kind = "getCheckins" -> getCheckins(rr)
      [] kind = "BadgesOffsetLimit" -> BadgesOffsetLimit(rr)
      [] kind = "friends" -> FriendsOffsetLimitTail(rr)
      [] kind = "beers" -> BeersTail(rr)
      [] kind = "brewerysearch" -> BrewerySearchTail(rr)
      [] kind \in {"user", "beer", "brewery", "venue"} -> InfoTail(kind, rr)
      [] kind = "checkin" -> AuthCheckinTail(rr)
      [] kind = "toast" -> AuthToastTail(rr)
      [] OTHER -> [returned |-> TRUE, panic |-> FALSE,
                   res |-> rr.res, err |-> rr.err]

-----------------------------------------------------------------------------
(* Inputs *)

\* Sequences over S of length at most n.
RECURSIVE SeqsUpTo(_, _)
SeqsUpTo(S, n) ==
    IF n = 0 THEN {<<>>}
    ELSE LET shorter == SeqsUpTo(S, n - 1) IN
         shorter \cup {Append(q, x) : q \in {p \in shorter : Len(p) = n - 1}, x \in S}

\* Caller-supplied query parameters of a direct request: an ordinary key
\* with up to MaxVals values, with or without keys that collide with the
\* credential keys.
QueryValues == <<"qux", "corge", "grault", "garply">>

CallerQueries ==
    {[EmptyValues EXCEPT !["baz"] = SubSeq(QueryValues, 1, n),
                         ![k] = IF k = "baz" THEN SubSeq(QueryValues, 1, n)
                                ELSE <<"evil">>] :
        n \in 0..MaxVals, k \in {"baz", "client_id", "access_token"}}

\* POST body parameters.
CallerBodies == {EmptyValues, [EmptyValues EXCEPT !["checkin_id"] = <<"137">>]}

\* Decode targets of a direct request, and the value a non-nil one points
\* to when request is called.
CallerTargets == {NilPtr, [nil |-> FALSE, type |-> "meta"]}

PresetTarget == [Meta |-> [Code |-> 7]]

\* Paging parameters as the listing endpoints encode them.
CheckinQueries ==
    {[EmptyValues EXCEPT !["min_id"] = <<"0">>, !["max_id"] = <<"2147483647">>,
                         !["limit"] = <<"25">>]}

BadgeQueries == {[EmptyValues EXCEPT !["offset"] = <<"0">>, !["limit"] = <<"50">>]}

\* Wire values.
GoodTime ==
    JString([layout |-> "RFC1123Z", clock |-> <<2014, 12, 13, 19, 15, 38>>,
             zone |-> 0])

BadTime ==
    JString([layout |-> "RFC3339", clock |-> <<2014, 12, 13, 19, 15, 38>>,
             zone |-> 0])

NoList == [Count |-> 0, Items |-> <<>>]

User1 == [nil |-> FALSE, UserName |-> "gregavola", Supporter |-> JInt(1)]

UserBadSupporter == [nil |-> FALSE, UserName |-> "foo", Supporter |-> JInt(2)]

ToastOK == [nil |-> FALSE, ID |-> 1, Created |-> GoodTime, User |-> User1]

ToastNoUser == [nil |-> FALSE, ID |-> 2, Created |-> GoodTime, User |-> NilPtr]

ToastBadSupporter ==
    [nil |-> FALSE, ID |-> 4, Created |-> GoodTime, User |-> UserBadSupporter]

CommentNoUser == [nil |-> FALSE, ID |-> 3, Created |-> GoodTime, User |-> NilPtr]

\* The venue sub-object: {"venue_id": id, "venue_name": name}, or [].
VenueObject(id, name) == [json |-> "object", ID |-> id, Name |-> name]

NoVenue == JEmptyArray

rawCheckin(id, venue, toasts, comments) ==
    [nil |-> FALSE, ID |-> id, Created |-> GoodTime, Venue |-> venue,
     Badges |-> NoList, Toasts |-> toasts, Comments |-> comments]

RawCheckins ==
    { NilPtr,
      rawCheckin(1, NoVenue, NoList, NoList),
      rawCheckin(2, VenueObject(1, "foo"),
                 [Count |-> 1, Items |-> <<ToastOK>>], NoList),
      rawCheckin(3, VenueObject(1, ""), NoList, NoList),
      rawCheckin(4, VenueObject(0, "foo"), NoList, NoList),
      rawCheckin(5, VenueObject(0, ""),
                 [Count |-> 1, Items |-> <<ToastNoUser>>], NoList),
      rawCheckin(6, NoVenue, NoList, [Count |-> 1, Items |-> <<CommentNoUser>>]),
      [rawCheckin(7, VenueObject(1, "foo"), NoList, NoList)
          EXCEPT !.Created = BadTime],
      rawCheckin(8, NoVenue, [Count |-> 1, Items |-> <<ToastBadSupporter>>],
                 NoList) }

\* The levels of a badge: {"count": n, "items": [...]}, or [].
LevelsObject(count, items) == [json |-> "object", Count |-> count, Items |-> items]

Badge1 == [nil |-> FALSE, ID |-> 1, Active |-> JInt(1), Levels |-> JEmptyArray]

Badge2 ==
    [nil |-> FALSE, ID |-> 2, Active |-> JInt(0),
     Levels |-> LevelsObject(1, <<Badge1>>)]

BadgeBadActive ==
    [nil |-> FALSE, ID |-> 4, Active |-> JInt(2), Levels |-> JEmptyArray]

RawBadges ==
    { NilPtr, Badge1, Badge2, BadgeBadActive,
      [nil |-> FALSE, ID |-> 3, Active |-> JInt(1),
       Levels |-> LevelsObject(1, <<Badge2>>)] }

\* Response bodies.
MalformedBodies == {[form |-> "empty"], [form |-> "truncated"], [form |-> "syntax"]}

ResponseTimes ==
    { [present |-> FALSE],
      [present |-> TRUE, json |-> "object", micros |-> 500000, measure |-> "seconds"],
      [present |-> TRUE, json |-> "object", micros |-> 100000000, measure |-> "hours"] }

metaBody(code, dev, rt) ==
    [form |-> "meta", code |-> code, error_type |-> "invalid_auth",
     error_detail |-> "not authorized", developer_friendly |-> dev,
     response_time |-> rt]

MetaBodies ==
    {metaBody(code, dev, [present |-> FALSE]) :
        code \in {401, 500}, dev \in {"", "token is invalid"}}
    \cup {metaBody(500, "", rt) : rt \in ResponseTimes}

ListBodies(form, items) ==
    {[form |-> form, count |-> n, items |-> is] :
        n \in -1..MaxCount, is \in SeqsUpTo(items, MaxItems)}

StatusCodes == {199, 200, 299, 300, 500}

ContentTypes == {jsonContentType, "application/json; charset=utf-8"}

ResponsesWith(bodies) ==
    {[nil |-> FALSE, StatusCode |-> code, Header |-> [ContentType |-> ct],
      Body |-> b] :
        code \in StatusCodes, ct \in ContentTypes, b \in bodies}

RequestResponses == ResponsesWith(MalformedBodies \cup MetaBodies)

CheckinResponses ==
    ResponsesWith(MalformedBodies \cup MetaBodies
                  \cup ListBodies("checkins", RawCheckins))

BadgeResponses ==
    ResponsesWith(MalformedBodies \cup MetaBodies
                  \cup ListBodies("badges", RawBadges))

Responses(kind) ==
    CASE kind = "getCheckins" -> CheckinResponses
      [] kind = "BadgesOffsetLimit" -> BadgeResponses
      [] OTHER -> RequestResponses

TransportErrors == {[sentinel |-> "net.OpError"], [sentinel |-> "context.Canceled"]}

-----------------------------------------------------------------------------
(* The endpoint methods.  Each builds the parameters of one call of        *)
(* Client.request: its method, endpoint, POST body, query and decode       *)
(* target.                                                                  *)

\* math.MaxInt32
MaxInt32 == 2147483647

\* strconv.Itoa
Itoa(n) == ToString(n)

\* strconv.FormatFloat(f, 'f', -1, 64): the shortest decimal that reads back
\* as f, without exponent.  A float of the model is a number of tenths.
formatFloat(tenths) ==
    LET a == IF tenths < 0 THEN 0 - tenths ELSE tenths
        sign == IF tenths < 0 THEN "-" ELSE ""
        frac == IF a % 10 = 0 THEN "" ELSE "." \o ToString(a % 10)
    IN sign \o ToString(a \div 10) \o frac

\* The parameters of one call of Client.request.
Call(kind, method, endpoint, body, query, type) ==
    [kind |-> kind, method |-> method, endpoint |-> endpoint, body |-> body,
     query |-> query, v |-> [nil |-> FALSE, type |-> type],
     t0 |-> ZeroTarget(type)]

\* c.getCheckins(endpoint, q), up to its call of request (client.go 333-345).
getCheckinsCall(endpoint, q) ==
    Call("getCheckins", "GET", endpoint, EmptyValues, q, "checkins")

\* url.Values{"min_id": ..., "max_id": ..., "limit": ...}
MinMaxIDLimit(minID, maxID, limit) ==
    [EmptyValues EXCEPT !["min_id"] = <<Itoa(minID)>>,
                        !["max_id"] = <<Itoa(maxID)>>,
                        !["limit"] = <<Itoa(limit)>>]

\* A parameter an endpoint sets only under a condition:
\* if on { q.Set(k, v) }
Param(on, k, v) == [on |-> on, k |-> k, v |-> v]

\* q after the conditional Sets of ps from the i-th on, in order.
RECURSIVE SetParams(_, _, _)
SetParams(q, ps, i) ==
    IF i > Len(ps) THEN q
    ELSE SetParams(IF ps[i].on THEN ValuesSet(q, ps[i].k, ps[i].v) ELSE q,
                   ps, i + 1)

\* UserService.CheckinsMinMaxIDLimit
UserCheckinsMinMaxIDLimit(username, minID, maxID, limit) ==
    getCheckinsCall("user/checkins/" \o username,
        SetParams(EmptyValues,
                  <<Param(minID # 0, "min_id", Itoa(minID)),
                    Param(maxID # MaxInt32, "max_id", Itoa(maxID)),
                    Param(TRUE, "limit", Itoa(limit))>>, 1))

\* UserService.Checkins
UserCheckins(username) == UserCheckinsMinMaxIDLimit(username, 0, MaxInt32, 25)

\* BeerService.CheckinsMinMaxIDLimit
BeerCheckinsMinMaxIDLimit(id, minID, maxID, limit) ==
    getCheckinsCall("beer/checkins/" \o Itoa(id),
                    MinMaxIDLimit(minID, maxID, limit))

\* BeerService.Checkins
BeerCheckins(id) == BeerCheckinsMinMaxIDLimit(id, 0, MaxInt32, 25)

\* BreweryService.CheckinsMinMaxIDLimit
BreweryCheckinsMinMaxIDLimit(id, minID, maxID, limit) ==
    getCheckinsCall("brewery/checkins/" \o Itoa(id),
                    MinMaxIDLimit(minID, maxID, limit))

\* BreweryService.Checkins
BreweryCheckins(id) == BreweryCheckinsMinMaxIDLimit(id, 0, MaxInt32, 25)

\* VenueService.CheckinsMinMaxIDLimit
VenueCheckinsMinMaxIDLimit(id, minID, maxID, limit) ==
    getCheckinsCall("venue/checkins/" \o Itoa(id),
                    MinMaxIDLimit(minID, maxID, limit))

\* VenueService.Checkins
VenueCheckins(id) == VenueCheckinsMinMaxIDLimit(id, 0, MaxInt32, 25)

\* AuthService.CheckinsMinMaxIDLimit
AuthCheckinsMinMaxIDLimit(minID, maxID, limit) ==
    getCheckinsCall("checkin/recent", MinMaxIDLimit(minID, maxID, limit))

\* AuthService.Checkins
AuthCheckins == AuthCheckinsMinMaxIDLimit(0, MaxInt32, 25)

\* Distance units (local.go)
DistanceMiles == "m"
DistanceKilometers == "km"

\* A LocalCheckinsRequest; a field left out of the literal is its zero value.
LocalCheckinsRequest(lat, lng, minID, maxID, limit, radius, units) ==
    [Latitude |-> lat, Longitude |-> lng, MinID |-> minID, MaxID |-> maxID,
     Limit |-> limit, Radius |-> radius, Units |-> units]

\* LocalService.CheckinsMinMaxIDLimitRadius
LocalCheckinsMinMaxIDLimitRadius(r) ==
    getCheckinsCall("thepub/local",
        SetParams([EmptyValues EXCEPT !["lat"] = <<formatFloat(r.Latitude)>>,
                                      !["lng"] = <<formatFloat(r.Longitude)>>],
                  <<Param(r.MinID # 0, "min_id", Itoa(r.MinID)),
                    Param(r.MaxID # 0, "max_id", Itoa(r.MaxID)),
                    Param(r.Limit # 0, "limit", Itoa(r.Limit)),
                    Param(r.Radius # 0, "radius", Itoa(r.Radius)),
                    Param(r.Units # "", "dist_pref", r.Units)>>, 1))

\* LocalService.Checkins
LocalCheckins(latitude, longitude) ==
    LocalCheckinsMinMaxIDLimitRadius(
        LocalCheckinsRequest(latitude, longitude, 0, 0, 25, 25, DistanceMiles))


\* A CheckinRequest; a field left out of the literal is its zero value.
CheckinRequest(beerID, gmtOffset, timeZone, foursquareID, latitude, longitude, comment, rating, facebook, twitter, foursquare) ==
    [BeerID |-> beerID, GMTOffset |-> gmtOffset, TimeZone |-> timeZone,
     FoursquareID |-> foursquareID, Latitude |-> latitude,
     Longitude |-> longitude, Comment |-> comment, Rating |-> rating,
     Facebook |-> facebook, Twitter |-> twitter, Foursquare |-> foursquare]

\* AuthService.Checkin, up to its call of request: q is the POST body.
AuthCheckinShoutAlways(r) ==
    Call("checkin", "POST", "checkin/add",
         SetParams([EmptyValues EXCEPT !["bid"] = <<Itoa(r.BeerID)>>,
                                       !["gmt_offset"] = <<Itoa(r.GMTOffset)>>,
                                       !["timezone"] = <<r.TimeZone>>],
                   <<Param(r.FoursquareID # "", "foursquare_id", r.FoursquareID),
                     Param(r.Latitude # 0, "geolat", formatFloat(r.Latitude)),
                     Param(r.Longitude # 0, "geolng", formatFloat(r.Longitude)),
                     Param(TRUE, "shout", r.Comment),
                     Param(r.Rating # 0, "rating", formatFloat(r.Rating)),
                     Param(r.Facebook, "facebook", "on"),
                     Param(r.Twitter, "twitter", "on"),
                     Param(r.Foursquare, "foursquare", "on")>>, 1),
         EmptyValues, "checkin")

AuthCheckin(r) ==
    Call("checkin", "POST", "checkin/add",
         SetParams([EmptyValues EXCEPT !["bid"] = <<Itoa(r.BeerID)>>,
                                       !["gmt_offset"] = <<Itoa(r.GMTOffset)>>,
                                       !["timezone"] = <<r.TimeZone>>],
                   <<Param(r.FoursquareID # "", "foursquare_id", r.FoursquareID),
                     Param(r.Latitude # 0, "geolat", formatFloat(r.Latitude)),
                     Param(r.Longitude # 0, "geolng", formatFloat(r.Longitude)),
                     Param(r.Comment # "", "shout", r.Comment),
                     Param(r.Rating # 0, "rating", formatFloat(r.Rating)),
                     Param(r.Facebook, "facebook", "on"),
                     Param(r.Twitter, "twitter", "on"),
                     Param(r.Foursquare, "foursquare", "on")>>, 1),
         EmptyValues, "checkin")

\* AuthService.Toast, up to its call of request: the body q stays empty and
\* the checkin ID goes into the endpoint.
AuthToast(r) ==
    Call("toast", "POST", "checkin/toast/" \o Itoa(r.CheckinID),
         EmptyValues, EmptyValues, "toast")

\* The query of an Info lookup.
compactQueryAlways(compact) ==
    ValuesSet(EmptyValues, "compact", IF compact THEN "true" ELSE "false")

compactQuery(compact) ==
    IF compact THEN ValuesSet(EmptyValues, "compact", "true") ELSE EmptyValues

\* UserService.Info
UserInfo(username, compact) ==
    Call("user", "GET", "user/info/" \o username, EmptyValues,
         compactQuery(compact), "user")

\* BeerService.Info
BeerInfo(id, compact) ==
    Call("beer", "GET", "beer/info/" \o Itoa(id), EmptyValues,
         compactQuery(compact), "beer")

\* BreweryService.Info
BreweryInfo(id, compact) ==
    Call("brewery", "GET", "brewery/info/" \o Itoa(id), EmptyValues,
         compactQuery(compact), "brewery")

\* VenueService.Info
VenueInfo(id, compact) ==
    Call("venue", "GET", "venue/info/" \o Itoa(id), EmptyValues,
         compactQuery(compact), "venue")

\* Sort constants
SortDate == "date"
SortCheckin == "checkin"
SortHighestRated == "highest_rated"

\* url.Values{"offset": ..., "limit": ...}
OffsetLimit(offset, limit) ==
    [EmptyValues EXCEPT !["offset"] = <<Itoa(offset)>>,
                        !["limit"] = <<Itoa(limit)>>]

\* UserService.FriendsOffsetLimit
UserFriendsOffsetLimit(username, offset, limit) ==
    Call("friends", "GET", "user/friends/" \o username, EmptyValues,
         OffsetLimit(offset, limit), "friends")

\* UserService.Friends
UserFriends(username) == UserFriendsOffsetLimit(username, 0, 25)

\* UserService.BadgesOffsetLimit
UserBadgesOffsetLimit(username, offset, limit) ==
    Call("BadgesOffsetLimit", "GET", "user/badges/" \o username, EmptyValues,
         OffsetLimit(offset, limit), "badges")

\* UserService.Badges
UserBadgesLimit25(username) == UserBadgesOffsetLimit(username, 0, 25)

UserBadges(username) == UserBadgesOffsetLimit(username, 0, 50)

\* UserService.BeersOffsetLimitSort
UserBeersOffsetLimitSort(username, offset, limit, sort) ==
    Call("beers", "GET", "user/beers/" \o username, EmptyValues,
         ValuesSet(OffsetLimit(offset, limit), "sort", sort), "beers")

\* UserService.Beers
UserBeers(username) == UserBeersOffsetLimitSort(username, 0, 25, SortDate)

\* UserService.WishListOffsetLimitSort
UserWishListOffsetLimitSort(username, offset, limit, sort) ==
    Call("beers", "GET", "user/wishlist/" \o username, EmptyValues,
         ValuesSet(OffsetLimit(offset, limit), "sort", sort), "wishlist")

\* UserService.WishList
UserWishList(username) == UserWishListOffsetLimitSort(username, 0, 25, SortDate)

\* BeerService.SearchOffsetLimitSort
BeerSearchOffsetLimitSort(query, offset, limit, sort) ==
    Call("beers", "GET", "search/beer", EmptyValues,
         ValuesSet(ValuesSet(OffsetLimit(offset, limit), "sort", sort),
                   "q", query), "beersearch")

\* BeerService.Search
BeerSearch(query) == BeerSearchOffsetLimitSort(query, 0, 25, SortDate)

\* BreweryService.SearchOffsetLimit
BrewerySearchOffsetLimit(query, offset, limit) ==
    Call("brewerysearch", "GET", "search/brewery", EmptyValues,
         ValuesSet(OffsetLimit(offset, limit), "q", query), "brewerysearch")

\* BreweryService.Search
BrewerySearch(query) == BrewerySearchOffsetLimit(query, 0, 25)

-----------------------------------------------------------------------------
(* The OAuth handler.  NewAuthHandler builds an AuthHandler; its ServeHTTP   *)
(* checks the incoming request, asks the upstream authorization endpoint    *)
(* for a token and hands the token to the TokenHandlerFunc.                 *)

untappdOAuthAuthorize(clientID, clientSecret, redirectURL) ==
    "https://untappd.com/oauth/authorize/?client_id=" \o clientID
        \o "&client_secret=" \o clientSecret
        \o "&response_type=code&redirect_url=" \o redirectURL

\* strings.Contains(s, sub)
Contains(s, sub) ==
    \E i \in 1..(Len(s) - Len(sub) + 1) : SubSeq(s, i, i + Len(sub) - 1) = sub

\* url.Parse: of the URLs of the model, the one with the escape %zz does not
\* parse.
urlParse(raw) ==
    IF Contains(raw, "%zz") THEN [sentinel |-> "*url.Error"] ELSE NilErr

\* NewAuthHandler(clientID, clientSecret, redirectURL, fn, client): fn is
\* "nil" or the name of a TokenHandlerFunc.
NewAuthHandler(clientID, clientSecret, redirectURL, fn) ==
    IF clientID = "" THEN [h |-> NilPtr, err |-> ErrNoClientID]
    ELSE IF clientSecret = "" THEN [h |-> NilPtr, err |-> ErrNoClientSecret]
    ELSE IF urlParse(redirectURL) # NilErr
    THEN [h |-> NilPtr, err |-> urlParse(redirectURL)]
    ELSE [h |-> [nil |-> FALSE, clientID |-> clientID,
                 clientSecret |-> clientSecret, redirectURL |-> redirectURL,
                 oAuthURL |-> untappdOAuthAuthorize(clientID, clientSecret,
                                                    redirectURL),
                 handler |-> IF fn = "nil" THEN "defaultTokenFn" ELSE fn],
          err |-> NilErr]

\* What a response writer has sent: nothing yet, or a status and a body.
NothingWritten == [status |-> 0, body |-> ""]

\* http.Error(w, msg, code)
httpError(msg, code) == [status |-> code, body |-> msg]

\* r.URL.Query().Get("code"): the first value of the key, "" without one.
queryGetCode(r) == IF r.code = <<>> THEN "" ELSE r.code[1]

\* ServeHTTP up to a.client.Get: the checks of the method and of the code.
serveHTTPChecksMethodOnly(a, r) ==
    IF r.Method # "GET"
    THEN [get |-> FALSE,
          w |-> httpError("only GET requests are allowed", 405)]
    ELSE [get |-> TRUE, url |-> a.oAuthURL \o "&code=" \o queryGetCode(r)]

serveHTTPChecks(a, r) ==
    IF r.Method # "GET"
    THEN [get |-> FALSE,
          w |-> httpError("only GET requests are allowed", 405)]
    ELSE IF queryGetCode(r) = ""
    THEN [get |-> FALSE, w |-> httpError("no 'code' GET parameter", 400)]
    ELSE [get |-> TRUE, url |-> a.oAuthURL \o "&code=" \o queryGetCode(r)]

\* The checks of the upstream response: its status and its content type.
upstreamCheckStatusOnly(res) ==
    IF res.StatusCode > 299 \/ res.StatusCode < 200
    THEN httpError("authentication server error: HTTP "
                      \o ToString(res.StatusCode), 502)
    ELSE NothingWritten

upstreamCheck(res) ==
    IF res.StatusCode > 299 \/ res.StatusCode < 200
    THEN httpError("authentication server error: HTTP "
                      \o ToString(res.StatusCode), 502)
    ELSE IF ~Contains(res.Header.ContentType, jsonContentType)
    THEN httpError("authentication server sent non-JSON content", 502)
    ELSE NothingWritten

\* json.NewDecoder(res.Body).Decode(&v) for
\* var v struct { Response struct { AccessToken string } }
decodeToken(b) ==
    IF syntaxCheck(b) # NilErr THEN [err |-> syntaxCheck(b), token |-> ""]
    ELSE IF b.form # "token" THEN [err |-> NilErr, token |-> ""]
    ELSE The({[err |-> u.err, token |-> u.v.chars] :
                 u \in {unmarshalString(b.access_token)}})

\* a.handler(token, w, r): defaultTokenFn writes the token; a handler of the
\* caller that writes nothing leaves the server's 200 with an empty body.
handlerWrites(fn, token) ==
    IF fn = "defaultTokenFn" THEN [status |-> 200, body |-> token]
    ELSE [status |-> 200, body |-> ""]

\* ServeHTTP after a.client.Get returned (doErr, res): what it wrote and the
\* tokens it called a.handler with.
serveHTTPAnswerIgnoringDecode(a, doErr, res) ==
    IF doErr # NilErr
    THEN [w |-> httpError(doErr.sentinel, 500), tokens |-> <<>>]
    ELSE IF upstreamCheck(res) # NothingWritten
    THEN [w |-> upstreamCheck(res), tokens |-> <<>>]
    ELSE The({[w |-> handlerWrites(a.handler, d.token),
               tokens |-> <<d.token>>] :
                 d \in {decodeToken(res.Body)}})

serveHTTPAnswer(a, doErr, res) ==
    IF doErr # NilErr
    THEN [w |-> httpError(doErr.sentinel, 500), tokens |-> <<>>]
    ELSE IF upstreamCheck(res) # NothingWritten
    THEN [w |-> upstreamCheck(res), tokens |-> <<>>]
    ELSE The({IF d.err # NilErr
              THEN [w |-> httpError(d.err.sentinel, 502), tokens |-> <<>>]
              ELSE [w |-> handlerWrites(a.handler, d.token),
                    tokens |-> <<d.token>>] :
                 d \in {decodeToken(res.Body)}})

-----------------------------------------------------------------------------
(* The state machine *)

NoReq == [kind |-> "none"]
NoResp == [nil |-> TRUE]
NoResult == [returned |-> FALSE, panic |-> FALSE]
NoTarget == [unset |-> TRUE]

\* The goroutines that call the client at the same time, and a caller that
\* has no call in progress.
Callers == {"g1", "g2"}
NoCall == [pc |-> "idle"]

Init ==
    /\ client = NilPtr
    /\ ctor = NoCtor
    /\ pc = "idle"
    /\ req = NoReq
    /\ resp = NoResp
    /\ result = NoResult
    /\ target = NoTarget
    /\ bodyPos = 0
    /\ bodyClosed = FALSE
    /\ trace = <<>>
    /\ classified = NotClassified
    /\ netRequests = 0
    /\ transportErr = NilErr
    /\ handler = NilPtr
    /\ calls = [c \in Callers |-> NoCall]

\* A call builds its request and hands it to the transport.
Send(kind, method, endpoint, body, query, v, t0) ==
    /\ pc = "idle"
    /\ client # NilPtr
    /\ netRequests < MaxRequests
    /\ req' = [kind |-> kind, method |-> method, endpoint |-> endpoint,
               body |-> body, query |-> query, v |-> v, t0 |-> t0,
               sent |-> buildRequest(client, method, endpoint, body, query)]
    /\ pc' = "sent"
    /\ netRequests' = netRequests + 1
    /\ target' = t0
    /\ UNCHANGED <<client, ctor, resp, result, bodyPos, bodyClosed, trace,
                   classified, transportErr, handler, calls>>

\* c.request(method, "foo", body, query, v), called directly.
CallRequest ==
    /\ pc = "idle"
    /\ \E method \in Methods, body \in CallerBodies, query \in CallerQueries,
          v \in CallerTargets :
          Send("request", method, "foo", body, query, v,
             IF v.nil THEN NoTarget ELSE PresetTarget)

\* c.getCheckins(endpoint, q)
CallGetCheckins ==
    \E q \in CheckinQueries :
        Send("getCheckins", "GET", "user/checkins/gregavola", EmptyValues, q,
             [nil |-> FALSE, type |-> "checkins"], ZeroTarget("checkins"))

\* c.User.BadgesOffsetLimit(username, offset, limit)
CallBadgesOffsetLimit ==
    \E q \in BadgeQueries :
        Send("BadgesOffsetLimit", "GET", "user/badges/gregavola", EmptyValues, q,
             [nil |-> FALSE, type |-> "badges"], ZeroTarget("badges"))

\* The round trip ends: request runs to its return, and so does the endpoint.
FinishRetrying(doErr, res) ==
    LET rr == requestReturn(doErr, res, req.v, req.t0) IN
    /\ pc = "sent"
    /\ IF doErr # NilErr /\ netRequests < MaxRequests
       THEN /\ netRequests' = netRequests + 1
            /\ UNCHANGED <<pc, resp, result, target, bodyPos, bodyClosed, trace,
                           classified, transportErr>>
       ELSE /\ pc' = "done"
            /\ resp' = res
            /\ result' = callReturn(req.kind, rr)
            /\ target' = rr.target
            /\ bodyPos' = rr.bodyPos
            /\ bodyClosed' = rr.bodyClosed
            /\ trace' = rr.trace
            /\ classified' = rr.checked
            /\ transportErr' = doErr
            /\ UNCHANGED netRequests
    /\ UNCHANGED <<client, ctor, req, handler, calls>>

Finish(doErr, res) ==
    LET rr == requestReturn(doErr, res, req.v, req.t0) IN
    /\ pc = "sent"
    /\ pc' = "done"
    /\ resp' = res
    /\ result' = callReturn(req.kind, rr)
    /\ target' = rr.target
    /\ bodyPos' = rr.bodyPos
    /\ bodyClosed' = rr.bodyClosed
    /\ trace' = rr.trace
    /\ classified' = rr.checked
    /\ transportErr' = doErr
    /\ UNCHANGED <<client, ctor, req, netRequests, handler, calls>>

\* c.client.Do returns an error.
TransportFails ==
    /\ pc = "sent"
    /\ \E e \in TransportErrors : Finish(e, NoResp)

\* c.client.Do returns a response.
TransportResponds ==
    /\ pc = "sent"
    /\ \E res \in Responses(req.kind) : Finish(NilErr, res)

\* The caller is done with the result; the client is ready for another call.
Return ==
    /\ pc = "done"
    /\ pc' = "idle"
    /\ req' = NoReq
    /\ resp' = NoResp
    /\ result' = NoResult
    /\ target' = NoTarget
    /\ bodyPos' = 0
    /\ bodyClosed' = FALSE
    /\ trace' = <<>>
    /\ classified' = NotClassified
    /\ transportErr' = NilErr
    /\ UNCHANGED <<client, ctor, netRequests, handler, calls>>

Next ==
    \/ CallNewClient
    \/ CallNewAuthenticatedClient
    \/ CallRequest
    \/ CallGetCheckins
    \/ CallBadgesOffsetLimit
    \/ TransportFails
    \/ TransportResponds
    \/ Return

Spec == Init /\ [][Next]_vars

-----------------------------------------------------------------------------
(* The endpoint methods called on a client *)

\* Arguments the callers of the model pass.
Usernames == {"gregavola"}
ResourceIDs == {1, 25}
MinIDs == {0, 5}
MaxIDs == {MaxInt32, 0, 9}
Limits == {25, 0}
Offsets == {0, 50}
\* The sorts passed to the variants: three of the Sort constants and a value
\* that is none of them.
Sorts == {SortDate, SortCheckin, SortHighestRated, "newest"}
SearchQueries == {"dogfish"}
Coordinates == {0, 10, -755}
Radii == {0, 25}
Units == {"", DistanceMiles, DistanceKilometers}

\* Requests with none, each one and all of the optional fields set.
LocalCheckinsRequests ==
    {LocalCheckinsRequest(10, -755, minID, maxID, limit, radius, units) :
        minID \in MinIDs, maxID \in {0, 9}, limit \in Limits,
        radius \in Radii, units \in {"", DistanceKilometers}}
    \cup {LocalCheckinsRequest(0, 0, 0, 0, 0, 0, ""),
          LocalCheckinsRequest(0, 0, 0, MaxInt32, 25, 25, DistanceMiles)}

NoOptions == CheckinRequest(1, 0, "", "", 0, 0, "", 0, FALSE, FALSE, FALSE)

CheckinRequests ==
    {NoOptions,
     CheckinRequest(1, -5, "EST", "", 0, 0, "", 0, FALSE, FALSE, FALSE),
     [NoOptions EXCEPT !.FoursquareID = "ABCDEF"],
     [NoOptions EXCEPT !.Latitude = 10],
     [NoOptions EXCEPT !.Longitude = -755],
     [NoOptions EXCEPT !.Comment = "hello world"],
     [NoOptions EXCEPT !.Rating = 35],
     [NoOptions EXCEPT !.Facebook = TRUE],
     [NoOptions EXCEPT !.Twitter = TRUE],
     [NoOptions EXCEPT !.Foursquare = TRUE],
     CheckinRequest(1, -5, "EST", "ABCDEF", 10, -755, "hello world", 35,
                    TRUE, TRUE, TRUE)}

ToastRequests == {[CheckinID |-> id] : id \in {1, 137}}

\* Response bodies of the endpoints, by the decode target they answer.
Beer1 == [nil |-> FALSE, ID |-> 1, Created |-> GoodTime]
BeerBadCreated == [nil |-> FALSE, ID |-> 2, Created |-> BadTime]
Brewery1 == [nil |-> FALSE, ID |-> 1, Active |-> JInt(1)]
BreweryBadActive == [nil |-> FALSE, ID |-> 2, Active |-> JInt(-1)]
Venue1 == [nil |-> FALSE, ID |-> 1, Name |-> "foo", Updated |-> GoodTime]
VenueBadUpdated == [nil |-> FALSE, ID |-> 2, Name |-> "bar", Updated |-> BadTime]

EndpointItems(type) ==
    CASE type = "checkins" ->
            {rawCheckin(1, NoVenue, NoList, NoList),
             rawCheckin(2, VenueObject(1, "foo"),
                        [Count |-> 1, Items |-> <<ToastOK>>], NoList),
             [rawCheckin(7, VenueObject(1, "foo"), NoList, NoList)
                 EXCEPT !.Created = BadTime],
             rawCheckin(8, NoVenue,
                        [Count |-> 1, Items |-> <<ToastBadSupporter>>], NoList)}
      [] type = "badges" -> {Badge1, Badge2, BadgeBadActive}
      [] type = "friends" -> {[User |-> User1], [User |-> UserBadSupporter]}
      [] type = "brewerysearch" ->
            {[Brewery |-> Brewery1], [Brewery |-> BreweryBadActive]}
      [] OTHER ->
            {[Beer |-> Beer1, Brewery |-> Brewery1],
             [Beer |-> BeerBadCreated, Brewery |-> Brewery1],
             [Beer |-> Beer1, Brewery |-> BreweryBadActive]}

EndpointObjects(type) ==
    CASE type = "user" -> {User1, UserBadSupporter}
      [] type = "beer" -> {Beer1, BeerBadCreated}
      [] type = "brewery" -> {Brewery1, BreweryBadActive}
      [] type = "venue" -> {Venue1, VenueBadUpdated}
      [] type = "checkin" ->
            {rawCheckin(1, NoVenue, NoList, NoList),
             [rawCheckin(7, VenueObject(1, "foo"), NoList, NoList)
                 EXCEPT !.Created = BadTime],
             rawCheckin(8, NoVenue,
                        [Count |-> 1, Items |-> <<ToastBadSupporter>>], NoList)}
      [] type = "toast" -> {ToastOK, ToastBadSupporter}

\* "{}", as the tests answer.
EmptyObjectBody == [form |-> "emptyobject"]

EndpointBodies(type) ==
    MalformedBodies \cup {EmptyObjectBody, metaBody(500, "", [present |-> FALSE])}
    \cup (IF type \in ListTypes
          THEN UNION {{[form |-> type, count |-> n, items |-> is] :
                          n \in {Len(is), MaxCount}} :
                      is \in SeqsUpTo(EndpointItems(type), MaxItems)}
          ELSE {[form |-> type, obj |-> o] : o \in EndpointObjects(type)})

EndpointResponses(type) ==
    {[nil |-> FALSE, StatusCode |-> code, Header |-> [ContentType |-> ct],
      Body |-> b] :
        code \in {200, 500}, ct \in ContentTypes, b \in EndpointBodies(type)}

\* An endpoint method is called: it builds the parameters c of its call of
\* request, and request hands the request to the transport.
Invoke(fn, args, c) ==
    /\ pc = "idle"
    /\ client # NilPtr
    /\ netRequests < MaxRequests
    /\ req' = [kind |-> c.kind, method |-> c.method, endpoint |-> c.endpoint,
               body |-> c.body, query |-> c.query, v |-> c.v, t0 |-> c.t0,
               sent |-> buildRequest(client, c.method, c.endpoint, c.body,
                                     c.query),
               fn |-> fn, args |-> args]
    /\ pc' = "sent"
    /\ netRequests' = netRequests + 1
    /\ target' = c.t0
    /\ UNCHANGED <<client, ctor, resp, result, bodyPos, bodyClosed, trace,
                   classified, transportErr, handler, calls>>

\* The checkin feeds paged by ID: User, Beer, Brewery, Venue and Auth, each
\* with its convenience method and its MinMaxIDLimit variant.
CallCheckins ==
    /\ pc = "idle"
    /\ \/ \E u \in Usernames : Invoke("User.Checkins", <<u>>, UserCheckins(u))
       \/ \E u \in Usernames, minID \in MinIDs, maxID \in MaxIDs, limit \in Limits :
             Invoke("User.CheckinsMinMaxIDLimit", <<u, minID, maxID, limit>>,
                    UserCheckinsMinMaxIDLimit(u, minID, maxID, limit))
       \/ \E id \in ResourceIDs : Invoke("Beer.Checkins", <<id>>, BeerCheckins(id))
       \/ \E id \in ResourceIDs, minID \in MinIDs, maxID \in MaxIDs, limit \in Limits :
             Invoke("Beer.CheckinsMinMaxIDLimit", <<id, minID, maxID, limit>>,
                    BeerCheckinsMinMaxIDLimit(id, minID, maxID, limit))
       \/ \E id \in ResourceIDs :
             Invoke("Brewery.Checkins", <<id>>, BreweryCheckins(id))
       \/ \E id \in ResourceIDs, minID \in MinIDs, maxID \in MaxIDs, limit \in Limits :
             Invoke("Brewery.CheckinsMinMaxIDLimit", <<id, minID, maxID, limit>>,
                    BreweryCheckinsMinMaxIDLimit(id, minID, maxID, limit))
       \/ \E id \in ResourceIDs : Invoke("Venue.Checkins", <<id>>, VenueCheckins(id))
       \/ \E id \in ResourceIDs, minID \in MinIDs, maxID \in MaxIDs, limit \in Limits :
             Invoke("Venue.CheckinsMinMaxIDLimit", <<id, minID, maxID, limit>>,
                    VenueCheckinsMinMaxIDLimit(id, minID, maxID, limit))
       \/ Invoke("Auth.Checkins", <<>>, AuthCheckins)
       \/ \E minID \in MinIDs, maxID \in MaxIDs, limit \in Limits :
             Invoke("Auth.CheckinsMinMaxIDLimit", <<minID, maxID, limit>>,
                    AuthCheckinsMinMaxIDLimit(minID, maxID, limit))

\* The local feed: c.Local.Checkins and c.Local.CheckinsMinMaxIDLimitRadius
CallLocalCheckins ==
    /\ pc = "idle"
    /\ \/ \E lat \in Coordinates, lng \in Coordinates :
             Invoke("Local.Checkins", <<lat, lng>>, LocalCheckins(lat, lng))
       \/ \E r \in LocalCheckinsRequests :
             Invoke("Local.CheckinsMinMaxIDLimitRadius", <<r>>,
                    LocalCheckinsMinMaxIDLimitRadius(r))

\* c.Auth.Checkin(r)
CallAuthCheckin ==
    /\ pc = "idle"
    /\ \E r \in CheckinRequests : Invoke("Auth.Checkin", <<r>>, AuthCheckin(r))

\* c.Auth.Toast(r)
CallAuthToast ==
    /\ pc = "idle"
    /\ \E r \in ToastRequests : Invoke("Auth.Toast", <<r>>, AuthToast(r))

\* The Info lookups of User, Beer, Brewery and Venue.
CallInfo ==
    /\ pc = "idle"
    /\ \E compact \in BOOLEAN :
          \/ \E u \in Usernames :
                Invoke("User.Info", <<u, compact>>, UserInfo(u, compact))
          \/ \E id \in ResourceIDs :
                Invoke("Beer.Info", <<id, compact>>, BeerInfo(id, compact))
          \/ \E id \in ResourceIDs :
                Invoke("Brewery.Info", <<id, compact>>, BreweryInfo(id, compact))
          \/ \E id \in ResourceIDs :
                Invoke("Venue.Info", <<id, compact>>, VenueInfo(id, compact))

\* The listings paged by offset: friends, badges, beers, wish list and the
\* two searches, each with its convenience method and its variant.
CallListing ==
    /\ pc = "idle"
    /\ \/ \E u \in Usernames :
             \/ Invoke("User.Friends", <<u>>, UserFriends(u))
             \/ Invoke("User.Badges", <<u>>, UserBadges(u))
             \/ Invoke("User.Beers", <<u>>, UserBeers(u))
             \/ Invoke("User.WishList", <<u>>, UserWishList(u))
       \/ \E q \in SearchQueries :
             \/ Invoke("Beer.Search", <<q>>, BeerSearch(q))
             \/ Invoke("Brewery.Search", <<q>>, BrewerySearch(q))
       \/ \E u \in Usernames, offset \in Offsets, limit \in Limits :
             \/ Invoke("User.FriendsOffsetLimit", <<u, offset, limit>>,
                       UserFriendsOffsetLimit(u, offset, limit))
             \/ Invoke("User.BadgesOffsetLimit", <<u, offset, limit>>,
                       UserBadgesOffsetLimit(u, offset, limit))
             \/ \E sort \in Sorts :
                   \/ Invoke("User.BeersOffsetLimitSort",
                             <<u, offset, limit, sort>>,
                             UserBeersOffsetLimitSort(u, offset, limit, sort))
                   \/ Invoke("User.WishListOffsetLimitSort",
                             <<u, offset, limit, sort>>,
                             UserWishListOffsetLimitSort(u, offset, limit, sort))
       \/ \E q \in SearchQueries, offset \in Offsets, limit \in Limits :
             \/ Invoke("Brewery.SearchOffsetLimit", <<q, offset, limit>>,
                       BrewerySearchOffsetLimit(q, offset, limit))
             \/ \E sort \in Sorts :
                   Invoke("Beer.SearchOffsetLimitSort",
                          <<q, offset, limit, sort>>,
                          BeerSearchOffsetLimitSort(q, offset, limit, sort))

\* c.client.Do returns the response of an endpoint.
EndpointResponds ==
    /\ pc = "sent"
    /\ \E res \in EndpointResponses(req.v.type) : Finish(NilErr, res)

NextEndpoints ==
    \/ CallNewClient
    \/ CallNewAuthenticatedClient
    \/ CallCheckins
    \/ CallLocalCheckins
    \/ CallAuthCheckin
    \/ CallAuthToast
    \/ CallInfo
    \/ CallListing
    \/ TransportFails
    \/ EndpointResponds
    \/ Return

SpecEndpoints == Init /\ [][NextEndpoints]_vars

-----------------------------------------------------------------------------
(* The scalar decoders called on their own, as json.Unmarshal and the      *)
(* tests of the decoders call them, and Error.Error called on an *Error.   *)

\* {"time": t, "measure": m}: t in millionths, as %f prints it.
DurationObject(micros, measure) ==
    [json |-> "object", micros |-> micros, measure |-> measure]

Measures == {"milliseconds", "seconds", "minutes", "hours", "days", ""}

DurationInputs ==
    {JMalformed} \cup
    {DurationObject(micros, m) :
        micros \in {0, 71000, 500000, 1000000, 1500000, -500000}, m \in Measures}

\* The durations *r holds before the call: none and 7ns.
DurationTargets == {ZeroDuration, Duration(0, 7)}

BoolInputs ==
    {JMalformed, JNull, JTrue, JFalse, JFloat(5), JFloat(10),
     JString(PlainText("true")), JString(PlainText("1"))}
    \cup {JInt(n) : n \in -1..2}

TimeInputs == {JMalformed, JNull, JInt(1), GoodTime, BadTime,
               JString(PlainText(""))}

JArray(elems) == [json |-> "array", elems |-> elems]

BadgeLevelsInputs ==
    {JMalformed, JNull, JEmptyArray, JArray(<<1>>), JInt(1),
     LevelsObject(0, <<>>), LevelsObject(1, <<Badge1>>),
     LevelsObject(2, <<Badge1, Badge2>>), LevelsObject(1, <<BadgeBadActive>>),
     LevelsObject(2, <<Badge1>>)}

VenueInputs ==
    {JMalformed, JNull, JEmptyArray, JArray(<<1>>), JInt(1),
     VenueObject(0, ""), VenueObject(1, "foo"), VenueObject(2, "")}

\* r.UnmarshalJSON(data) is called with *r = r0 and returns out.
Unmarshal(fn, data, r0, out) ==
    /\ pc = "idle"
    /\ pc' = "done"
    /\ req' = [kind |-> "UnmarshalJSON", fn |-> fn, data |-> data, t0 |-> r0]
    /\ target' = out.val
    /\ result' = [returned |-> TRUE, panic |-> FALSE, err |-> out.err]
    /\ UNCHANGED <<client, ctor, resp, bodyPos, bodyClosed, trace, classified,
                   netRequests, transportErr, handler, calls>>

CallResponseDuration ==
    /\ pc = "idle"
    /\ \E data \in DurationInputs, r0 \in DurationTargets :
          Unmarshal("responseDuration", data, r0,
                    responseDurationUnmarshalJSON(data, r0))

CallResponseBool ==
    /\ pc = "idle"
    /\ \E data \in BoolInputs, r0 \in BOOLEAN :
          Unmarshal("responseBool", data, r0,
                    responseBoolUnmarshalJSON(data, r0))

CallResponseTime ==
    /\ pc = "idle"
    /\ \E data \in TimeInputs :
          Unmarshal("responseTime", data, ZeroTime,
                    responseTimeUnmarshalJSON(data, ZeroTime))

CallResponseBadgeLevels ==
    /\ pc = "idle"
    /\ \E data \in BadgeLevelsInputs :
          Unmarshal("responseBadgeLevels", data, ZeroLevels,
                    responseBadgeLevelsUnmarshalJSON(data, ZeroLevels))

CallResponseVenue ==
    /\ pc = "idle"
    /\ \E data \in VenueInputs :
          Unmarshal("responseVenue", data, ZeroVenue,
                    responseVenueUnmarshalJSON(data, ZeroVenue))

\* The errors Error() is called on: with and without each of the two texts.
Errors ==
    {[sentinel |-> "*Error", Code |-> code, Detail |-> detail, Type |-> type,
      DeveloperFriendly |-> dev, Duration |-> ZeroDuration] :
        code \in {0, 401, 500}, type \in {"", "invalid_auth"},
        detail \in {"", "not authorized"}, dev \in {"", "token is invalid"}}

\* e.Error() is called on an *Error.
CallErrorError ==
    /\ pc = "idle"
    /\ \E e \in Errors :
          /\ pc' = "done"
          /\ req' = [kind |-> "Error", fn |-> "Error.Error", e |-> e]
          /\ result' = [returned |-> TRUE, panic |-> FALSE, val |-> ErrorError(e)]
          /\ UNCHANGED <<client, ctor, resp, target, bodyPos, bodyClosed, trace,
                         classified, netRequests, transportErr, handler, calls>>

NextDecoders ==
    \/ CallResponseDuration
    \/ CallResponseBool
    \/ CallResponseTime
    \/ CallResponseBadgeLevels
    \/ CallResponseVenue
    \/ CallErrorError
    \/ Return

SpecDecoders == Init /\ [][NextDecoders]_vars

-----------------------------------------------------------------------------
(* The OAuth handler serving requests *)

RedirectURLs == {"http://foo.com", "http://foo.com/%zz"}

\* The fn argument: nil, or a TokenHandlerFunc of the caller.
TokenHandlerFuncs == {"nil", "tokenFn"}

\* Incoming requests: the method, and the values of the code parameter.
IncomingRequests ==
    {[Method |-> m, code |-> c] :
        m \in {"GET", "POST", "HEAD"},
        c \in {<<>>, <<"">>, <<"foo">>, <<"foo", "bar">>}}

TokenBody(token) == [form |-> "token", access_token |-> token]

UpstreamBodies ==
    MalformedBodies
    \cup {EmptyObjectBody, metaBody(500, "", [present |-> FALSE]),
          TokenBody(JString(PlainText("ABCDEF0123456789"))),
          TokenBody(JInt(1)), TokenBody(JNull)}

UpstreamResponses ==
    {[nil |-> FALSE, StatusCode |-> code, Header |-> [ContentType |-> ct],
      Body |-> b] :
        code \in StatusCodes,
        ct \in ContentTypes \cup {"text/plain", ""},
        b \in UpstreamBodies}

\* A caller constructs the handler.
CallNewAuthHandler ==
    /\ pc = "idle"
    /\ handler = NilPtr
    /\ \E id \in ClientIDs, secret \in ClientSecrets, ru \in RedirectURLs,
          fn \in TokenHandlerFuncs :
          LET r == NewAuthHandler(id, secret, ru, fn) IN
          /\ handler' = r.h
          /\ ctor' = [fn |-> "NewAuthHandler", clientID |-> id,
                      clientSecret |-> secret, redirectURL |-> ru,
                      err |-> r.err]
    /\ UNCHANGED <<client, pc, req, resp, result, target, bodyPos, bodyClosed,
                   trace, classified, netRequests, transportErr, calls>>

\* The server hands a request to a.ServeHTTP, which runs up to its return
\* or up to a.client.Get.
ServeHTTP ==
    /\ pc = "idle"
    /\ handler # NilPtr
    /\ netRequests < MaxRequests
    /\ \E r \in IncomingRequests :
          LET c == serveHTTPChecks(handler, r) IN
          IF c.get
          THEN /\ pc' = "upstream"
               /\ req' = [kind |-> "ServeHTTP", r |-> r, gets |-> <<c.url>>]
               /\ netRequests' = netRequests + 1
               /\ UNCHANGED result
          ELSE /\ pc' = "done"
               /\ req' = [kind |-> "ServeHTTP", r |-> r, gets |-> <<>>]
               /\ result' = [returned |-> TRUE, panic |-> FALSE, w |-> c.w,
                             tokens |-> <<>>]
               /\ UNCHANGED netRequests
    /\ UNCHANGED <<client, ctor, resp, target, bodyPos, bodyClosed, trace,
                   classified, transportErr, handler, calls>>

\* a.client.Get has returned: ServeHTTP runs to its return.
Answer(doErr, res) ==
    /\ pc = "upstream"
    /\ pc' = "done"
    /\ resp' = res
    /\ transportErr' = doErr
    /\ bodyClosed' = (doErr = NilErr)
    /\ result' = The({[returned |-> TRUE, panic |-> FALSE, w |-> a.w,
                       tokens |-> a.tokens] :
                         a \in {serveHTTPAnswer(handler, doErr, res)}})
    /\ UNCHANGED <<client, ctor, req, target, bodyPos, trace, classified,
                   netRequests, handler, calls>>

\* a.client.Get returns an error.
UpstreamFails ==
    /\ pc = "upstream"
    /\ \E e \in TransportErrors : Answer(e, NoResp)

\* a.client.Get returns the response of the authorization endpoint.
UpstreamResponds ==
    /\ pc = "upstream"
    /\ \E res \in UpstreamResponses : Answer(NilErr, res)

NextAuth ==
    \/ CallNewAuthHandler
    \/ ServeHTTP
    \/ UpstreamFails
    \/ UpstreamResponds
    \/ Return

SpecAuth == Init /\ [][NextAuth]_vars

-----------------------------------------------------------------------------
(* Calls that run at the same time on one client.  Each caller has its own *)
(* call: the parameters, the request, the response and the result are      *)
(* locals of request and of the endpoint method; the Client is shared.     *)

\* The fields of the Client after a call of request: request reads c.url,
\* the credentials, c.UserAgent and c.client, resolves the endpoint into a
\* new URL and assigns no field.
clientAfterRequestKeepingURL(c, sent) ==
    [c EXCEPT !.url.Path = sent.URL.Path[1] \o "/" \o sent.URL.Path[2]]

clientAfterRequest(c, sent) == c

\* The endpoint calls the callers choose from.
ConcurrentCalls ==
    {[fn |-> "User.Info", args |-> <<"gregavola", FALSE>>,
      c |-> UserInfo("gregavola", FALSE)],
     [fn |-> "User.Badges", args |-> <<"gregavola">>,
      c |-> UserBadges("gregavola")],
     [fn |-> "Auth.Toast", args |-> <<[CheckinID |-> 137]>>,
      c |-> AuthToast([CheckinID |-> 137])]}
    \cup {[fn |-> "Beer.Checkins", args |-> <<id>>, c |-> BeerCheckins(id)] :
             id \in ResourceIDs}

ConcurrentResponses(type) ==
    {r \in EndpointResponses(type) : r.Header.ContentType = jsonContentType}

\* A caller calls an endpoint method, which runs up to c.client.Do.
GoCall(g) ==
    /\ calls[g].pc = "idle"
    /\ client # NilPtr
    /\ netRequests < MaxRequests
    /\ \E k \in ConcurrentCalls :
          /\ calls' = The({[calls EXCEPT ![g] =
                               [pc |-> "sent", fn |-> k.fn, args |-> k.args,
                                kind |-> k.c.kind, method |-> k.c.method,
                                endpoint |-> k.c.endpoint, body |-> k.c.body,
                                query |-> k.c.query, v |-> k.c.v,
                                t0 |-> k.c.t0, sent |-> sent]] :
                             sent \in {buildRequest(client, k.c.method,
                                                    k.c.endpoint, k.c.body,
                                                    k.c.query)}})
          /\ client' = clientAfterRequest(client, calls'[g].sent)
    /\ netRequests' = netRequests + 1
    /\ UNCHANGED <<ctor, pc, req, resp, result, target, bodyPos, bodyClosed,
                   trace, classified, transportErr, handler>>

\* c.client.Do of the caller's call returns (doErr, res): request and the
\* endpoint method run to their return.
GoFinish(g, doErr, res) ==
    /\ calls[g].pc = "sent"
    /\ calls' = The({[calls EXCEPT ![g] =
                         [k EXCEPT !.pc = "done"]
                             @@ [doErr |-> doErr, resp |-> res,
                                 result |-> callReturn(k.kind, rr),
                                 target |-> rr.target,
                                 bodyClosed |-> rr.bodyClosed] ] :
                       k \in {calls[g]},
                       rr \in {requestReturn(doErr, res, calls[g].v,
                                             calls[g].t0)}})
    /\ UNCHANGED <<client, ctor, pc, req, resp, result, target, bodyPos,
                   bodyClosed, trace, classified, netRequests, transportErr,
                   handler>>

\* The caller is done with its result.
GoReturn(g) ==
    /\ calls[g].pc = "done"
    /\ calls' = [calls EXCEPT ![g] = NoCall]
    /\ UNCHANGED <<client, ctor, pc, req, resp, result, target, bodyPos,
                   bodyClosed, trace, classified, netRequests, transportErr,
                   handler>>

ConcurrentCall ==
    \E g \in Callers :
        /\ calls[g].pc = "idle"
        /\ GoCall(g)

ConcurrentFails ==
    \E g \in Callers :
        /\ calls[g].pc = "sent"
        /\ \E e \in TransportErrors : GoFinish(g, e, NoResp)

ConcurrentResponds ==
    \E g \in Callers :
        /\ calls[g].pc = "sent"
        /\ \E res \in ConcurrentResponses(calls[g].v.type) :
              GoFinish(g, NilErr, res)

ConcurrentReturn ==
    \E g \in Callers :
        /\ calls[g].pc = "done"
        /\ GoReturn(g)

NextConcurrent ==
    \/ CallNewClient
    \/ CallNewAuthenticatedClient
    \/ ConcurrentCall
    \/ ConcurrentFails
    \/ ConcurrentResponds
    \/ ConcurrentReturn

SpecConcurrent == Init /\ [][NextConcurrent]_vars

-----------------------------------------------------------------------------
(* Properties *)

Range(f) == {f[i] : i \in DOMAIN f}

\* A round trip completed and the call has run to its end.
Answered == pc = "done" /\ resp # NoResp

IsJSON == resp.Header.ContentType = jsonContentType

Is2xx == 200 <= resp.StatusCode /\ resp.StatusCode <= 299

\* C1: NewClient returns ErrNoClientID whenever the client ID is empty,
\* ErrNoClientSecret when only the secret is empty, and a client with a nil
\* error for two non-empty values; NewAuthenticatedClient fails exactly when
\* the token is empty; a failed construction returns no client, and no
\* request has reached the network while there is no client.
C1_Construction ==
    /\ ctor.fn = "NewClient" =>
          /\ ctor.clientID = "" =>
                ctor.err = ErrNoClientID /\ client = NilPtr
          /\ (ctor.clientID # "" /\ ctor.clientSecret = "") =>
                ctor.err = ErrNoClientSecret /\ client = NilPtr
          /\ (ctor.clientID # "" /\ ctor.clientSecret # "") =>
                /\ ctor.err = NilErr
                /\ client # NilPtr
                /\ client.clientID = ctor.clientID
                /\ client.clientSecret = ctor.clientSecret
                /\ client.accessToken = ""
    /\ ctor.fn = "NewAuthenticatedClient" =>
          /\ ctor.err # NilErr <=> ctor.accessToken = ""
          /\ ctor.err # NilErr => client = NilPtr
          /\ ctor.err = NilErr =>
                client # NilPtr /\ client.accessToken = ctor.accessToken
    /\ client = NilPtr => netRequests = 0 /\ pc = "idle"

\* C1 witness: an empty client ID with a non-empty secret was refused.
C1_Witness ==
    /\ ctor.fn = "NewClient"
    /\ ctor.clientID = ""
    /\ ctor.clientSecret # ""
    /\ ctor.err = ErrNoClientID
    /\ client = NilPtr

\* The request of the current call has been built and sent.
Sent == pc \in {"sent", "done"}

\* The pairs of the query string that was sent.
SentQuery == Range(req.sent.URL.RawQuery)

\* The credentials of the client are in the sent query: the token when the
\* client has one, the ID and the secret otherwise.
CredentialsSent ==
    IF client.accessToken # ""
    THEN <<"access_token", client.accessToken>> \in SentQuery
    ELSE /\ <<"client_id", client.clientID>> \in SentQuery
         /\ <<"client_secret", client.clientSecret>> \in SentQuery

\* The keys request sets for this client.
CredentialKeys ==
    IF client.accessToken # "" THEN {"access_token"}
    ELSE {"client_id", "client_secret"}

\* Every caller-supplied value under one of the keys ks was sent.
CallerParamsSent(ks) ==
    \A k \in ks : \A i \in 1..Len(req.query[k]) :
        <<k, req.query[k][i]>> \in SentQuery

\* C2 (as claimed): every request carries the client's credentials, and all
\* caller-supplied query parameters, whatever their keys.
C2_AllCallerParamsSent ==
    Sent => CredentialsSent /\ CallerParamsSent(Keys)

\* C2 (amended): every request carries the client's credentials, and every
\* caller-supplied query parameter whose key is not a credential key that
\* request sets for this client; under such a key only the client's own
\* value is sent.
C2_CredentialInjection ==
    Sent =>
        /\ CredentialsSent
        /\ CallerParamsSent(Keys \ CredentialKeys)
        /\ \A k \in CredentialKeys :
              Len(SentValues(req.sent.URL.RawQuery, k)) = 1

\* C2 witness: a client with a token sent a request with a two-valued key.
C2_Witness ==
    /\ Sent
    /\ client.accessToken # ""
    /\ Len(req.query["baz"]) = 2
    /\ <<"baz", "corge">> \in SentQuery

\* C3: when the Content-Type of the response is not exactly
\* application/json, checkResponse answers the content-type error for every
\* status code, 2xx included, and nothing has been read from the body.
C3_ContentTypeFirst ==
    (Answered /\ ~IsJSON) =>
        /\ classified = Classified(contentTypeError(resp.Header.ContentType))
        /\ bodyPos = 0
        /\ result.returned /\ result.err = classified.err

\* C3 witness: a 2xx response with a non-empty body and a wrong content type.
C3_Witness ==
    /\ Answered
    /\ Is2xx
    /\ resp.Header.ContentType = "application/json; charset=utf-8"
    /\ BodyLen(resp.Body) > 0
    /\ classified.called

\* C4: for a JSON response checkResponse answers nil for every status code
\* in [200,299], whatever the body, and a non-nil error for every other one.
C4_SuccessRange ==
    (Answered /\ IsJSON) =>
        /\ classified.called
        /\ Is2xx => classified.err = NilErr
        /\ ~Is2xx => classified.err # NilErr

\* C4 witness: status 299 with a truncated JSON body passed the classifier.
C4_Witness ==
    /\ Answered /\ IsJSON
    /\ resp.StatusCode = 299
    /\ resp.Body.form = "truncated"
    /\ classified = Classified(NilErr)

\* The measures the duration decoder knows.
KnownMeasures == {"milliseconds", "seconds", "minutes"}

\* The error envelope decoder rejects the body.
Undecodable(b) ==
    \/ b.form \in {"empty", "truncated", "syntax"}
    \/ /\ b.form = "meta"
       /\ b.response_time.present
       /\ b.response_time.measure \notin KnownMeasures

\* C5: for a JSON response outside [200,299] checkResponse answers a typed
\* *Error carrying the code, type, detail and developer-friendly text of the
\* body's meta envelope when the body decodes, and the decoder's own error
\* (io.EOF for an empty body, io.ErrUnexpectedEOF for a truncated one) when
\* it does not; a typed *Error never comes from a body that failed to decode.
C5_FailureOutcome ==
    (Answered /\ IsJSON /\ ~Is2xx) =>
        /\ classified.called
        /\ Undecodable(resp.Body) =>
              /\ classified.err.sentinel # "*Error"
              /\ classified.err # NilErr
              /\ resp.Body.form = "empty" => classified.err = ioEOF
              /\ resp.Body.form = "truncated" => classified.err = ioErrUnexpectedEOF
        /\ ~Undecodable(resp.Body) =>
              /\ classified.err.sentinel = "*Error"
              /\ resp.Body.form = "meta" =>
                    /\ classified.err.Code = resp.Body.code
                    /\ classified.err.Type = resp.Body.error_type
                    /\ classified.err.Detail = resp.Body.error_detail
                    /\ classified.err.DeveloperFriendly = resp.Body.developer_friendly
              /\ resp.Body.form # "meta" =>
                    classified.err.Code = 0 /\ classified.err.Type = ""

\* C5 witness: an envelope with code 401 came with HTTP status 500.
C5_Witness ==
    /\ Answered /\ IsJSON
    /\ resp.StatusCode = 500
    /\ resp.Body.form = "meta"
    /\ resp.Body.code = 401
    /\ classified.called
    /\ classified.err.sentinel = "*Error"
    /\ classified.err.Code = 401

\* C6: request hands every response to checkResponse before it decodes
\* anything into the target; when checkResponse fails, request returns that
\* error with the non-nil response and the target is as it was.
C6_ClassifyBeforeDecode ==
    Answered =>
        /\ trace # <<>> /\ trace[1] = "checkResponse"
        /\ classified.called
        /\ classified.err # NilErr =>
              /\ "decode" \notin Range(trace)
              /\ target = req.t0
              /\ result.returned
              /\ result.err = classified.err
              /\ result.res = resp /\ result.res # NilPtr

\* C6 witness: an API error arrived for a call whose target would have been
\* changed by decoding the body.
C6_Witness ==
    /\ Answered /\ IsJSON /\ ~Is2xx
    /\ ~req.v.nil /\ req.v.type = "meta"
    /\ resp.Body.form = "meta"
    /\ resp.Body.code # req.t0.Meta.Code
    /\ classified.err.sentinel = "*Error"
    /\ target = req.t0

\* C7 (as claimed): after a completed round trip the response body has been
\* read to its end and closed when request returns, on every path.
C7_ConsumedAndClosed ==
    Answered => bodyClosed /\ bodyPos = BodyLen(resp.Body)

\* C7 (amended): after a completed round trip the response body has been
\* closed when request returns, on every path; it has been read to its end
\* on the paths that decode it (API error, decode into the target), and not
\* at all on the content-type failure and nil-target paths.
C7_BodyClosed ==
    Answered =>
        /\ bodyClosed
        /\ "close" \in Range(trace)
        /\ IF IsJSON /\ (~Is2xx \/ ~req.v.nil)
           THEN bodyPos = BodyLen(resp.Body)
           ELSE bodyPos = 0

\* C7 witness: a content-type failure left a non-empty body unread but closed.
C7_Witness ==
    /\ Answered /\ ~IsJSON
    /\ BodyLen(resp.Body) > 0
    /\ bodyPos = 0
    /\ bodyClosed

\* The current call is a listing endpoint.
IsListing == req.kind \in {"getCheckins", "BadgesOffsetLimit"}

\* The count and the items the server reported to a listing endpoint; a
\* well-formed body of another shape reports none.
ReportedCount ==
    IF resp.Body.form \in {"checkins", "badges"} THEN resp.Body.count ELSE 0

ReportedItems ==
    IF resp.Body.form \in {"checkins", "badges"} THEN resp.Body.items ELSE <<>>

\* The listing endpoint returned a list and a nil error.
ListReturned ==
    /\ Answered /\ IsListing
    /\ result.returned /\ result.err = NilErr

\* C8 (as claimed): for every JSON response with a 2xx status the endpoint
\* returns a result or an error; it never panics.
C8_NoPanic ==
    (Answered /\ IsJSON /\ Is2xx) => result.returned /\ ~result.panic

C10_VenueNilIffEmpty ==
    (ListReturned /\ req.kind = "getCheckins") =>
        \A i \in 1..Len(ReportedItems) :
            LET wire == target.Items[i].Venue
                venue == result.val.elems[i].Venue
            IN /\ venue = NilPtr <=> (wire.ID = 0 /\ wire.Name = "")
               /\ venue # NilPtr => venue.ID = wire.ID /\ venue.Name = wire.Name

-----------------------------------------------------------------------------
(* Properties of the endpoint methods *)

\* An endpoint method was called and its request was handed to the transport.
Called(fns) == Sent /\ req.fn \in fns

\* The keys of the query string that was sent.
SentKeys == {p[1] : p \in SentQuery}

\* The path the request was sent to is the API root, the endpoint and a
\* trailing slash.
SentTo(endpoint) == req.sent.URL.Path = <<client.url.Path, endpoint, "">>

\* The convenience Checkins methods of the five services with ID paging.
FeedMethods ==
    {"User.Checkins", "Beer.Checkins", "Brewery.Checkins", "Venue.Checkins",
     "Auth.Checkins"}

\* The endpoint a convenience Checkins method queries.
FeedEndpoint ==
    CASE req.fn = "User.Checkins" -> "user/checkins/" \o req.args[1]
      [] req.fn = "Beer.Checkins" -> "beer/checkins/" \o ToString(req.args[1])
      [] req.fn = "Brewery.Checkins" -> "brewery/checkins/" \o ToString(req.args[1])
      [] req.fn = "Venue.Checkins" -> "venue/checkins/" \o ToString(req.args[1])
      [] req.fn = "Auth.Checkins" -> "checkin/recent"

\* The default ID paging is in the sent query.
DefaultPagingSent ==
    /\ <<"min_id", "0">> \in SentQuery
    /\ <<"max_id", "2147483647">> \in SentQuery
    /\ <<"limit", "25">> \in SentQuery

\* C11 (as claimed): every convenience Checkins method sends a GET to its
\* feed endpoint whose query holds min_id=0, max_id=2147483647 and limit=25;
\* none of the three is omitted.
C11_FeedDefaults ==
    Called(FeedMethods) =>
        /\ req.sent.Method = "GET"
        /\ SentTo(FeedEndpoint)
        /\ DefaultPagingSent

\* C12 (as claimed): Local.Checkins(lat, lng) sends a GET to thepub/local/
\* whose query holds lat, lng, min_id=0, max_id=2147483647, limit=25,
\* radius=25 and dist_pref=m, for every pair of coordinates.
C12_LocalDefaults ==
    Called({"Local.Checkins"}) =>
        /\ req.sent.Method = "GET"
        /\ SentTo("thepub/local")
        /\ <<"lat", formatFloat(req.args[1])>> \in SentQuery
        /\ <<"lng", formatFloat(req.args[2])>> \in SentQuery
        /\ DefaultPagingSent
        /\ <<"radius", "25">> \in SentQuery
        /\ <<"dist_pref", DistanceMiles>> \in SentQuery

\* The pairs of the POST body that was sent.
SentBody == Range(req.sent.Body)

\* The pair k=v when on, nothing otherwise.
Pair(on, k, v) == IF on THEN {<<k, v>>} ELSE {}

\* The body the claim expects of a checkin of request r.
ExpectedCheckinBody(r) ==
    {<<"bid", ToString(r.BeerID)>>, <<"gmt_offset", ToString(r.GMTOffset)>>,
     <<"timezone", r.TimeZone>>}
    \cup Pair(r.FoursquareID # "", "foursquare_id", r.FoursquareID)
    \cup Pair(r.Latitude # 0, "geolat", formatFloat(r.Latitude))
    \cup Pair(r.Longitude # 0, "geolng", formatFloat(r.Longitude))
    \cup Pair(r.Comment # "", "shout", r.Comment)
    \cup Pair(r.Rating # 0, "rating", formatFloat(r.Rating))
    \cup Pair(r.Facebook, "facebook", "on")
    \cup Pair(r.Twitter, "twitter", "on")
    \cup Pair(r.Foursquare, "foursquare", "on")

\* C13: Auth.Checkin sends a POST to checkin/add/ whose form-encoded body
\* holds exactly bid, gmt_offset and timezone and, for each optional field
\* of the request that is set, its parameter, each once; the credentials
\* are in the query string, which holds nothing else, and not in the body.
C13_CheckinBody ==
    Called({"Auth.Checkin"}) =>
        /\ req.sent.Method = "POST"
        /\ SentTo("checkin/add")
        /\ req.sent.Header.ContentType = <<formEncodedContentType>>
        /\ SentBody = ExpectedCheckinBody(req.args[1])
        /\ Len(req.sent.Body) = Cardinality(SentBody)
        /\ CredentialsSent
        /\ SentKeys = CredentialKeys
        /\ \A p \in SentBody :
              p[1] \notin {"access_token", "client_id", "client_secret"}

\* A checkin with rating 3.5, a comment, a location and every sharing flag
\* was posted, and one with no optional field at all can be.
C13_Witness ==
    /\ Called({"Auth.Checkin"})
    /\ pc = "done"
    /\ {<<"rating", "3.5">>, <<"shout", "hello world">>, <<"geolng", "-75.5">>,
        <<"facebook", "on">>, <<"twitter", "on">>, <<"foursquare", "on">>}
          \subseteq SentBody

\* C14 (as claimed): Auth.Toast sends a POST under checkin/toast whose body
\* holds checkin_id, the CheckinID of the request, and returns a nil error
\* when the answer is 2xx with a JSON body.
C14_ToastBody ==
    Called({"Auth.Toast"}) =>
        /\ req.sent.Method = "POST"
        /\ SentTo("checkin/toast/" \o ToString(req.args[1].CheckinID))
        /\ <<"checkin_id", ToString(req.args[1].CheckinID)>> \in SentBody
        /\ (Answered /\ Is2xx /\ IsJSON /\ resp.Body = EmptyObjectBody) =>
              result.returned /\ result.err = NilErr

InfoMethods == {"User.Info", "Beer.Info", "Brewery.Info", "Venue.Info"}

\* The call Info makes of request for the given arguments.
InfoCall(fn, id, compact) ==
    CASE fn = "User.Info" -> UserInfo(id, compact)
      [] fn = "Beer.Info" -> BeerInfo(id, compact)
      [] fn = "Brewery.Info" -> BreweryInfo(id, compact)
      [] fn = "Venue.Info" -> VenueInfo(id, compact)

\* C15: an Info lookup with compact=true supplies the one query parameter
\* compact=true, one with compact=false supplies none; besides it the sent
\* query holds the credentials only; the method, the endpoint and the decode
\* target are those of the same lookup with the other value of compact.
C15_CompactMode ==
    Called(InfoMethods) =>
        /\ req.query = IF req.args[2]
                       THEN [EmptyValues EXCEPT !["compact"] = <<"true">>]
                       ELSE EmptyValues
        /\ SentKeys \ CredentialKeys = IF req.args[2] THEN {"compact"} ELSE {}
        /\ \A p \in SentQuery : p[1] = "compact" => p[2] = "true"
        /\ Len(req.sent.URL.RawQuery) = Cardinality(SentKeys)
        /\ Encode(req.body) = <<>>
        /\ LET other == InfoCall(req.fn, req.args[1], ~req.args[2]) IN
              /\ other.method = req.method
              /\ other.endpoint = req.endpoint
              /\ other.v = req.v
              /\ other.t0 = req.t0
              /\ other.kind = req.kind

\* A compact lookup of a beer was answered and decoded.
C15_Witness ==
    /\ Called({"Beer.Info"})
    /\ req.args[2]
    /\ <<"compact", "true">> \in SentQuery
    /\ pc = "done"
    /\ result.returned /\ result.err = NilErr /\ result.val # NilPtr

\* The listings paged by offset, and the checkin feeds.
OffsetMethods ==
    {"User.Friends", "User.FriendsOffsetLimit", "User.Badges",
     "User.BadgesOffsetLimit", "User.Beers", "User.BeersOffsetLimitSort",
     "User.WishList", "User.WishListOffsetLimitSort", "Beer.Search",
     "Beer.SearchOffsetLimitSort", "Brewery.Search", "Brewery.SearchOffsetLimit"}

CheckinFeedMethods ==
    FeedMethods \cup
    {"User.CheckinsMinMaxIDLimit", "Beer.CheckinsMinMaxIDLimit",
     "Brewery.CheckinsMinMaxIDLimit", "Venue.CheckinsMinMaxIDLimit",
     "Auth.CheckinsMinMaxIDLimit", "Local.Checkins",
     "Local.CheckinsMinMaxIDLimitRadius"}

\* C16 (as claimed): every offset listing carries offset and limit and never
\* min_id or max_id; every checkin feed carries min_id, max_id and limit and
\* never offset.
C16_PaginationSchemes ==
    /\ Called(OffsetMethods) =>
          /\ {"offset", "limit"} \subseteq SentKeys
          /\ SentKeys \cap {"min_id", "max_id"} = {}
    /\ Called(CheckinFeedMethods) =>
          /\ {"min_id", "max_id", "limit"} \subseteq SentKeys
          /\ "offset" \notin SentKeys

\* Wire values the scalar decoders reject: an integer other than 0 and 1
\* for a boolean, a string that is not in the RFC1123Z layout for a time.
InvalidBool(d) == d.json = "int" /\ d.n \notin {0, 1}

InvalidTime(d) == d.json = "string" /\ d.text.layout # "RFC1123Z"

\* Some scalar field of the wire value w, or of a value nested in it, is
\* invalid.
InvalidInUser(w) == ~w.nil /\ InvalidBool(w.Supporter)

InvalidInToast(w) == ~w.nil /\ (InvalidTime(w.Created) \/ InvalidInUser(w.User))

RECURSIVE InvalidInBadge(_)
InvalidInBadge(w) ==
    /\ ~w.nil
    /\ \/ InvalidBool(w.Active)
       \/ /\ w.Levels.json = "object"
          /\ \E i \in 1..Len(w.Levels.Items) : InvalidInBadge(w.Levels.Items[i])

InvalidInCheckin(w) ==
    /\ ~w.nil
    /\ \/ InvalidTime(w.Created)
       \/ \E i \in 1..Len(w.Badges.Items) : InvalidInBadge(w.Badges.Items[i])
       \/ \E i \in 1..Len(w.Toasts.Items) : InvalidInToast(w.Toasts.Items[i])
       \/ \E i \in 1..Len(w.Comments.Items) : InvalidInToast(w.Comments.Items[i])

InvalidInItem(type, w) ==
    CASE type = "checkins" -> InvalidInCheckin(w)
      [] type = "badges" -> InvalidInBadge(w)
      [] type = "friends" -> InvalidInUser(w.User)
      [] type = "brewerysearch" -> InvalidBool(w.Brewery.Active)
      [] OTHER -> InvalidTime(w.Beer.Created) \/ InvalidBool(w.Brewery.Active)

InvalidInObject(type, w) ==
    CASE type = "user" -> InvalidInUser(w)
      [] type = "beer" -> InvalidTime(w.Created)
      [] type = "brewery" -> InvalidBool(w.Active)
      [] type = "venue" -> InvalidTime(w.Updated)
      [] type = "checkin" -> InvalidInCheckin(w)
      [] type = "toast" -> InvalidInToast(w)

\* The call was answered 2xx with a well-formed JSON document of the shape
\* the endpoint decodes, in which some scalar field is invalid.
InvalidScalarAnswered ==
    /\ Answered /\ Is2xx /\ IsJSON
    /\ resp.Body.form = req.v.type
    /\ IF req.v.type \in ListTypes
       THEN \E i \in 1..Len(resp.Body.items) :
               InvalidInItem(req.v.type, resp.Body.items[i])
       ELSE InvalidInObject(req.v.type, resp.Body.obj)

\* C20: when a 2xx response holds an invalid scalar field anywhere, the
\* endpoint returns (it does not panic) a non-nil error of the scalar
\* decoder, the HTTP response, and a nil result: no list and no object.
C20_ScalarFailure ==
    InvalidScalarAnswered =>
        /\ result.returned
        /\ result.err \in {errInvalidBool, timeParseError}
        /\ result.res = resp
        /\ req.v.type \in ListTypes => result.val = NilSlice
        /\ req.v.type \in {"user", "beer", "brewery", "venue", "checkin"} =>
              result.val = NilPtr

\* A listing was answered with a valid first item and an invalid later one:
\* the decode target holds the items up to the failure, the result is nil.
C20_Witness ==
    /\ InvalidScalarAnswered
    /\ req.v.type \in ListTypes
    /\ Len(target.Items) > 1
    /\ result.returned
    /\ result.val = NilSlice
    /\ result.err # NilErr

-----------------------------------------------------------------------------
(* Properties of the decoders *)

\* The decoder fn has run on req.data.
Unmarshalled(fn) == pc = "done" /\ req.kind = "UnmarshalJSON" /\ req.fn = fn

\* A duration in microseconds, for one that is a whole number of them.
DurationMicros(d) == d.sec * 1000000 + d.nsec \div 1000

C18_BoolDecoder ==
    Unmarshalled("responseBool") =>
        /\ req.data = JInt(0) => result.err = NilErr /\ target = FALSE
        /\ req.data = JInt(1) => result.err = NilErr /\ target = TRUE
        /\ (req.data.json = "int" /\ req.data.n \notin {0, 1}) =>
              result.err = errInvalidBool
        /\ req.data.json \in {"string", "true", "false", "float"} =>
              result.err # NilErr
        /\ result.err # NilErr => target = req.t0

\* The integer 2 was decoded into a boolean that held true: the decoder
\* failed with errInvalidBool and the boolean is still true.
C18_Witness ==
    /\ Unmarshalled("responseBool")
    /\ req.data = JInt(2)
    /\ req.t0 = TRUE
    /\ result.err = errInvalidBool
    /\ target = TRUE

\* The IDs of the badges of a decoded list.
BadgeIDs(items) == [i \in 1..Len(items) |-> items[i].ID]

\* C19: for badge levels and for the venue sub-object, [] decodes with a
\* nil error to the absent value (zero count and no items; zero venue), an
\* object decodes to its count and items (its ID and name), a malformed
\* input is an error; [] never gets the error that decoding an array as
\* the object gives.
C19_OptionalNested ==
    /\ Unmarshalled("responseBadgeLevels") =>
          /\ req.data = JEmptyArray =>
                /\ result.err = NilErr
                /\ target.Count = 0 /\ target.Items = <<>>
          /\ (req.data.json = "object" /\ result.err = NilErr) =>
                /\ target.Count = req.data.Count
                /\ BadgeIDs(target.Items) = BadgeIDs(req.data.Items)
          /\ (req.data.json = "object"
                /\ \A i \in 1..Len(req.data.Items) :
                      ~InvalidInBadge(req.data.Items[i])) =>
                result.err = NilErr
          /\ req.data = JMalformed => result.err # NilErr
          /\ (req.data.json = "array" /\ req.data # JEmptyArray) =>
                result.err = jsonUnmarshalTypeError
    /\ Unmarshalled("responseVenue") =>
          /\ req.data = JEmptyArray =>
                /\ result.err = NilErr
                /\ target.ID = 0 /\ target.Name = ""
          /\ req.data.json = "object" =>
                /\ result.err = NilErr
                /\ target.ID = req.data.ID /\ target.Name = req.data.Name
          /\ req.data = JMalformed => result.err # NilErr

\* [] was handed to the badge levels decoder, which returned a nil error
\* and left zero levels.
C19_Witness ==
    /\ Unmarshalled("responseBadgeLevels")
    /\ req.data = JEmptyArray
    /\ result.err = NilErr
    /\ target = ZeroLevels

(* Properties of the exported values *)

\* The elements of a slice that are not nil pointers.
Elems(s) == IF s.nil THEN {} ELSE {e \in Range(s.elems) : e # NilPtr}

\* A listing of badges returned its list without an error.
BadgesReturned ==
    /\ pc = "done" /\ req.kind = "BadgesOffsetLimit"
    /\ result.returned /\ result.err = NilErr

\* C26: every level of every badge that rawBadge.export produced is a badge
\* without levels of its own, whatever the payload nested.
C26_LevelsOneDeep ==
    BadgesReturned =>
        \A b \in Elems(result.val) :
            \A l \in Elems(b.Levels) : Elems(l.Levels) = {}

\* C28: Error() returns "<code> [<type>]: <text>"; the text is the developer
\* friendly string whenever that string is not empty, a detail string or
\* not, and the detail string only when the developer friendly one is empty.
C28_ErrorText ==
    (pc = "done" /\ req.kind = "Error") =>
        /\ req.e.DeveloperFriendly # "" =>
              result.val = ToString(req.e.Code) \o " [" \o req.e.Type \o "]: "
                              \o req.e.DeveloperFriendly
        /\ req.e.DeveloperFriendly = "" =>
              result.val = ToString(req.e.Code) \o " [" \o req.e.Type \o "]: "
                              \o req.e.Detail

\* Error() was called on an error that holds both texts and returned the
\* developer friendly one.
C28_Witness ==
    /\ pc = "done" /\ req.kind = "Error"
    /\ req.e.Detail = "not authorized"
    /\ req.e.DeveloperFriendly = "token is invalid"
    /\ result.val = "401 [invalid_auth]: token is invalid"

(* Properties of the request that is sent *)

\* The values the sent query carries under key k.
SentValuesOf(k) == {p[2] : p \in {x \in SentQuery : x[1] = k}}

\* C29: the sent query carries access_token exactly when the client holds a
\* token, and client_id and client_secret exactly when it holds none, each
\* with the client's own value and no other, whatever the caller passed.
C29_OneCredentialForm ==
    Sent =>
        /\ SentValuesOf("access_token") =
              IF client.accessToken # "" THEN {client.accessToken} ELSE {}
        /\ SentValuesOf("client_id") =
              IF client.accessToken # "" THEN {} ELSE {client.clientID}
        /\ SentValuesOf("client_secret") =
              IF client.accessToken # "" THEN {} ELSE {client.clientSecret}

\* The body parameters of the call hold at least one value.
BodyParamsGiven == \E k \in Keys : req.body[k] # <<>>

RequestOf(c) == buildRequest(client, c.method, c.endpoint, c.body, c.query)

\* C27: each convenience listing sends the request of its variant called
\* with the documented defaults (offset 0, limit 25, or 50 for badges, and
\* sort by date), and a variant sends the sort it was given as it is.
C27_ListingDefaults ==
    /\ Called({"User.Friends"}) =>
          req.sent = RequestOf(UserFriendsOffsetLimit(req.args[1], 0, 25))
    /\ Called({"User.Badges"}) =>
          req.sent = RequestOf(UserBadgesOffsetLimit(req.args[1], 0, 50))
    /\ Called({"User.Beers"}) =>
          req.sent = RequestOf(UserBeersOffsetLimitSort(req.args[1], 0, 25, "date"))
    /\ Called({"User.WishList"}) =>
          req.sent = RequestOf(UserWishListOffsetLimitSort(req.args[1], 0, 25, "date"))
    /\ Called({"Beer.Search"}) =>
          req.sent = RequestOf(BeerSearchOffsetLimitSort(req.args[1], 0, 25, "date"))
    /\ Called({"Brewery.Search"}) =>
          req.sent = RequestOf(BrewerySearchOffsetLimit(req.args[1], 0, 25))
    /\ Called({"User.Friends", "User.Beers", "User.WishList", "Beer.Search",
               "Brewery.Search"}) =>
          SentValuesOf("offset") = {"0"} /\ SentValuesOf("limit") = {"25"}
    /\ Called({"User.Badges"}) =>
          SentValuesOf("offset") = {"0"} /\ SentValuesOf("limit") = {"50"}
    /\ Called({"User.Beers", "User.WishList", "Beer.Search"}) =>
          SentValuesOf("sort") = {"date"}
    /\ Called({"User.BeersOffsetLimitSort", "User.WishListOffsetLimitSort",
               "Beer.SearchOffsetLimitSort"}) =>
          SentValuesOf("sort") = {req.args[4]}

\* A variant was called with a sort that is none of the Sort constants and
\* sent it.
C27_Witness ==
    /\ Called({"User.WishListOffsetLimitSort"})
    /\ req.args[4] = "newest"
    /\ SentValuesOf("sort") = {"newest"}

(* Properties of the round trip *)

\* The call in progress is a call of request or of an endpoint method.
ClientCall == req.kind \notin {"none", "UnmarshalJSON", "Error", "ServeHTTP"}

\* The call has returned after the transport failed.
TransportFailed == pc = "done" /\ ClientCall /\ transportErr # NilErr

\* The error of the decoder, for a call that got as far as decoding.
DecodeErr ==
    IF "decode" \in Range(trace)
    THEN decodeTarget(req.v.type, resp.Body, req.t0).err
    ELSE NilErr

\* A failed transport is answered with its own error, a nil response and a
\* nil result; a call that returns a nil error met no error of the
\* transport, of checkResponse or of the decoder.
ErrorsSurface ==
    /\ TransportFailed =>
          /\ result.returned
          /\ result.err = transportErr
          /\ result.res = NilPtr
          /\ "val" \in DOMAIN result => result.val \in {NilPtr, NilSlice}
    /\ (pc = "done" /\ ClientCall /\ result.returned /\ result.err = NilErr) =>
          /\ transportErr = NilErr
          /\ classified = Classified(NilErr)
          /\ DecodeErr = NilErr

\* A request is handed to the transport only by the step that starts a
\* call, one per call, and the step after it ends the call.
OneRoundTrip ==
    /\ netRequests' \in {netRequests, netRequests + 1}
    /\ netRequests' # netRequests => pc = "idle" /\ pc' = "sent"
    /\ pc = "sent" => pc' = "done" /\ netRequests' = netRequests

\* C24: every endpoint call makes at most one round trip; an error of the
\* transport is returned as it is with a nil response and a nil result and
\* without another attempt; no error of the transport, of checkResponse or
\* of the decoder is turned into a nil error.
C24_NoRetry == []ErrorsSurface /\ [][OneRoundTrip]_vars

\* A feed call whose round trip was cancelled returned the cancellation.
C24_Witness ==
    /\ TransportFailed
    /\ req.kind = "getCheckins"
    /\ transportErr = [sentinel |-> "context.Canceled"]
    /\ result.err = [sentinel |-> "context.Canceled"]
    /\ result.res = NilPtr /\ result.val = NilSlice
    /\ netRequests = 1

-----------------------------------------------------------------------------
(* Properties of the OAuth handler *)

\* An execution of ServeHTTP that has returned.
Served == pc = "done" /\ req.kind = "ServeHTTP"

CodeGiven == req.r.code # <<>> /\ req.r.code[1] # ""

UpstreamAnswered == req.gets # <<>> /\ transportErr = NilErr

Status2xx == resp.StatusCode >= 200 /\ resp.StatusCode <= 299

JSONContent ==
    resp.Header.ContentType \in {"application/json", "application/json; charset=utf-8"}

\* The body is one complete JSON value whose response.access_token, if
\* there is one, is a string or null.
BodyDecodes ==
    \/ resp.Body.form \in {"emptyobject", "meta"}
    \/ /\ resp.Body.form = "token"
       /\ resp.Body.access_token.json \in {"string", "null"}

TokenGranted ==
    /\ req.r.Method = "GET"
    /\ CodeGiven
    /\ UpstreamAnswered
    /\ Status2xx
    /\ JSONContent
    /\ BodyDecodes

\* C21: in every execution of ServeHTTP the TokenHandlerFunc is invoked at
\* most once, and only when the request was a GET with a non-empty code, the
\* upstream call succeeded with a 2xx status and a JSON content type and the
\* body decoded; in every other execution it is not invoked and an HTTP error
\* status is written.
C21_CallbackSafety ==
    Served =>
        /\ Len(result.tokens) <= 1
        /\ result.tokens # <<>> => TokenGranted
        /\ ~TokenGranted => result.tokens = <<>> /\ result.w.status >= 400

C21_Witness ==
    /\ Served
    /\ handler.handler = "tokenFn"
    /\ result.tokens = <<"ABCDEF0123456789">>
    /\ result.w.status = 200

UpstreamOrder ==
    req.kind = "ServeHTTP" =>
        /\ Len(req.gets) <= 1
        /\ req.gets # <<>> <=> req.r.Method = "GET" /\ CodeGiven
        /\ req.gets # <<>> =>
              req.gets[1] = handler.oAuthURL \o "&code=" \o req.r.code[1]
        /\ pc = "done" /\ req.gets # <<>> /\ transportErr # NilErr =>
              result.w.status = 500 /\ result.tokens = <<>>

\* A request goes to the upstream endpoint only in the step in which
\* ServeHTTP starts, and then only one.
OneUpstreamCall ==
    netRequests' # netRequests =>
        /\ pc = "idle" /\ pc' = "upstream"
        /\ netRequests' = netRequests + 1
        /\ Len(req'.gets) = 1

\* C30: ServeHTTP contacts the upstream endpoint at most once per incoming
\* request and only after the method check and the code check have passed; a
\* transport error of the upstream call gives a 500 without the callback.
C30_StepOrder == []UpstreamOrder /\ [][OneUpstreamCall]_vars

C30_Witness ==
    /\ Served
    /\ req.gets # <<>>
    /\ transportErr # NilErr
    /\ result.w.status = 500
    /\ result.tokens = <<>>

-----------------------------------------------------------------------------
(* Properties of calls that run at the same time *)

\* The client as its constructor returned it.
ConstructedClient ==
    IF ctor.fn = "NewClient" THEN NewClient(ctor.clientID, ctor.clientSecret).c
    ELSE NewAuthenticatedClient(ctor.accessToken).c

\* The request and the result of a call that runs alone on the client.
AloneRequest(k) ==
    buildRequest(ConstructedClient, k.method, k.endpoint, k.body, k.query)

AloneResult(k) == callReturn(k.kind, requestReturn(k.doErr, k.resp, k.v, k.t0))

EachCallAlone ==
    /\ client # NilPtr => client = ConstructedClient
    /\ \A g \in Callers :
          /\ calls[g].pc \in {"sent", "done"} =>
                calls[g].sent = AloneRequest(calls[g])
          /\ calls[g].pc = "done" => calls[g].result = AloneResult(calls[g])

\* No step writes the client once it is constructed, and a step of one
\* caller leaves the call of the other as it is.
NoSharedWrite ==
    /\ client # NilPtr => client' = client
    /\ \A g, h \in Callers :
          g # h /\ calls'[g] # calls[g] => calls'[h] = calls[h]

====
